---- MODULE Spec2Model ----
(***************************************************************************)
(* A model of the CHIP-8 virtual machine of rust-chip8: the interpreter    *)
(* core (src/src/vm.rs), its display (src/src/display.rs) and its keypad,  *)
(* and of the application that runs it: a frontend thread and a VM thread  *)
(* exchanging commands over two channels (src/src/bin).                    *)
(* The machine is one record, vm, holding the fields of struct Chip8; each *)
(* method of Chip8 is an operator from a machine to the machine it leaves. *)
(***************************************************************************)
EXTENDS Integers, Sequences, FiniteSets, TLC

VARIABLES
    vm,               \* the Chip8 struct (vm.rs:29-63), plus the field
                      \* panicked: the thread that owns it has panicked
    overflow_checks,  \* the build: TRUE when integer overflow panics (debug),
                      \* FALSE when it wraps (release)
    last,             \* history: the operation performed last
    steps,            \* history: the number of operations performed
    emulator          \* the application around the machine: the state of
                      \* the VM thread's loop, of the frontend's loop and
                      \* the two channels between them

vars == <<vm, overflow_checks, last, steps, emulator>>

----------------------------------------------------------------------------
(* Program constants. *)

FLAG == 15
STACK_SIZE == 16
MEMORY_SIZE == 4096
PROGRAM_START == 512
FONT_BYTES == 80
END_OF_PROGRAM == 4094
DISPLAY_WIDTH == 64
DISPLAY_HEIGHT == 32
NUM_KEYS == 16

Byte == 0..255
Reg == 0..15

FONT_SET == <<
    240, 144, 144, 144, 240,   32,  96,  32,  32, 112,
    240,  16, 240, 128, 240,  240,  16, 240,  16, 240,
    144, 144, 240,  16,  16,  240, 128, 240,  16, 240,
    240, 128, 240, 144, 240,  240,  16,  32,  64,  64,
    240, 144, 240, 144, 240,  240, 144, 240,  16, 240,
    240, 144, 240, 144, 144,  224, 144, 224, 144, 224,
    240, 128, 128, 128, 240,  224, 144, 144, 144, 224,
    240, 128, 240, 128, 240,  240, 128, 240, 128, 128 >>

----------------------------------------------------------------------------
(* Machine integers. *)

RECURSIVE BitAnd(_, _)
BitAnd(a, b) ==
    IF a = 0 \/ b = 0 THEN 0
    ELSE (a % 2) * (b % 2) + 2 * BitAnd(a \div 2, b \div 2)

RECURSIVE BitOr(_, _)
BitOr(a, b) ==
    IF a = 0 THEN b
    ELSE IF b = 0 THEN a
    ELSE (IF a % 2 = 1 \/ b % 2 = 1 THEN 1 ELSE 0) + 2 * BitOr(a \div 2, b \div 2)

RECURSIVE BitXor(_, _)
BitXor(a, b) ==
    IF a = 0 THEN b
    ELSE IF b = 0 THEN a
    ELSE ((a + b) % 2) + 2 * BitXor(a \div 2, b \div 2)

\* `x as u8` of a non-negative or negative integer: the low 8 bits.
AsU8(n) == n % 256

\* `b as i8` of a byte: its two's complement reading.
AsI8(b) == IF b >= 128 THEN b - 256 ELSE b

\* The i8 an out-of-range result wraps to where overflow is not checked.
WrapI8(n) == ((n + 128) % 256) - 128

InI8(n) == n >= -128 /\ n <= 127

----------------------------------------------------------------------------
(* Memory: the 4096 bytes are kept as the image Chip8::new builds (the font *)
(* set, zeroes elsewhere) and the finite map of the bytes written since.    *)

InitialByte(a) == IF a < FONT_BYTES THEN FONT_SET[a + 1] ELSE 0

MemRead(m, a) == IF a \in DOMAIN m.memory THEN m.memory[a] ELSE InitialByte(a)

MemWrite(m, a, b) ==
    [m EXCEPT !.memory = [k \in (DOMAIN m.memory) \cup {a} |->
                             IF k = a THEN b ELSE m.memory[k]]]

Panic(m) == [m EXCEPT !.panicked = TRUE]

----------------------------------------------------------------------------
(* Display (display.rs).  gfx is the set of cells <<y, x>> whose pixel is 1 *)
(* (every pixel is 0 or 1: draw only ever XORs a pixel with 0x01).          *)

Display_new == [gfx |-> {}, dirty |-> TRUE]

Display_clear(d) == [gfx |-> {}, dirty |-> TRUE]

\* The mask taken from the least significant bit: 0x01 << i.
SpriteMask_lsb_first(i) == 2 ^ i

\* 0x80 >> i
SpriteMask(i) == 128 \div (2 ^ i)

\* The inner loop with |= for ^=: a pixel is set, never toggled.
RECURSIVE DrawRow_setting(_, _, _, _, _, _)
DrawRow_setting(gfx, collision, xpos, y, byte, i) ==
    IF i >= 8
    THEN [gfx |-> gfx, collision |-> collision]
    ELSE LET x == (xpos + i) % DISPLAY_WIDTH
         IN  IF BitAnd(byte, SpriteMask(i)) # 0
             THEN IF <<y, x>> \in gfx
                  THEN DrawRow_setting(gfx, TRUE, xpos, y, byte, i + 1)
                  ELSE DrawRow_setting(gfx \cup {<<y, x>>}, collision,
                                       xpos, y, byte, i + 1)
             ELSE DrawRow_setting(gfx, collision, xpos, y, byte, i + 1)

\* The inner loop of Display::draw, for i in 0..8, from column i on: the bits
\* of one byte of the sprite drawn on row y.
RECURSIVE DrawRow(_, _, _, _, _, _)
DrawRow(gfx, collision, xpos, y, byte, i) ==
    IF i >= 8
    THEN [gfx |-> gfx, collision |-> collision]
    ELSE LET x == (xpos + i) % DISPLAY_WIDTH
         IN  IF BitAnd(byte, SpriteMask(i)) # 0
             THEN IF <<y, x>> \in gfx
                  THEN DrawRow(gfx \ {<<y, x>>}, TRUE, xpos, y, byte, i + 1)
                  ELSE DrawRow(gfx \cup {<<y, x>>}, collision, xpos, y, byte, i + 1)
             ELSE DrawRow(gfx, collision, xpos, y, byte, i + 1)

\* The outer loop of Display::draw, for j in 0..h, from row j on; sprite is
\* the sequence of the sprite's bytes.
RECURSIVE DrawFrom(_, _, _, _, _, _)
DrawFrom(gfx, collision, xpos, ypos, sprite, j) ==
    IF j >= Len(sprite)
    THEN [gfx |-> gfx, collision |-> collision]
    ELSE LET y == (ypos + j) % DISPLAY_HEIGHT
             row == DrawRow(gfx, collision, xpos, y, sprite[j + 1], 0)
         IN  IF row.collision
             THEN DrawFrom(row.gfx, TRUE, xpos, ypos, sprite, j + 1)
             ELSE DrawFrom(row.gfx, FALSE, xpos, ypos, sprite, j + 1)

\* Display::draw without its first statement, self.dirty = true.
Display_draw_keeping_dirty(d, xpos, ypos, sprite) ==
    LET r == DrawFrom(d.gfx, FALSE, xpos, ypos, sprite, 0)
    IN  [display |-> [gfx |-> r.gfx, dirty |-> d.dirty], collision |-> r.collision]

\* Display::draw: the display it leaves and the collision it returns.
Display_draw(d, xpos, ypos, sprite) ==
    LET r == DrawFrom(d.gfx, FALSE, xpos, ypos, sprite, 0)
    IN  [display |-> [gfx |-> r.gfx, dirty |-> TRUE], collision |-> r.collision]

----------------------------------------------------------------------------
(* Keypad.  keys[k] is TRUE when key k is Pressed.                          *)

Keypad_new == [keys |-> [k \in 0..(NUM_KEYS - 1) |-> FALSE]]

\* An index the keypad holds; any other is a failed index check.
KeyIndexValid(index) == index < NUM_KEYS

get_key_state(k, index) == k.keys[index]

set_key_state(k, index, pressed) == [k EXCEPT !.keys[index] = pressed]

----------------------------------------------------------------------------
(* Chip8 (vm.rs).                                                           *)

Chip8_new ==
    [opcode          |-> 0,
     memory          |-> << >>,
     v               |-> [r \in Reg |-> 0],
     i               |-> 0,
     pc              |-> PROGRAM_START,
     stack           |-> [s \in 0..(STACK_SIZE - 1) |-> 0],
     sp              |-> 0,
     delay_timer     |-> 0,
     sound_timer     |-> 0,
     display         |-> Display_new,
     keypad          |-> Keypad_new,
     wait_for_key    |-> <<FALSE, 0>>,
     shift_op_use_vy |-> FALSE,
     panicked        |-> FALSE]

\* reset that also gives the memory the image Chip8::new builds, dropping the
\* loaded program.
reset_clearing_memory(m) ==
    [m EXCEPT !.opcode = 0,
              !.v = [r \in Reg |-> 0],
              !.i = 0,
              !.pc = PROGRAM_START,
              !.stack = [s \in 0..(STACK_SIZE - 1) |-> 0],
              !.sp = 0,
              !.delay_timer = 0,
              !.sound_timer = 0,
              !.display = Display_new,
              !.keypad = Keypad_new,
              !.wait_for_key = <<FALSE, 0>>,
              !.memory = << >>]

\* reset without its last statement, which ends the wait for a key.
reset_keeping_wait(m) ==
    [m EXCEPT !.opcode = 0,
              !.v = [r \in Reg |-> 0],
              !.i = 0,
              !.pc = PROGRAM_START,
              !.stack = [s \in 0..(STACK_SIZE - 1) |-> 0],
              !.sp = 0,
              !.delay_timer = 0,
              !.sound_timer = 0,
              !.display = Display_new,
              !.keypad = Keypad_new]

reset(m) ==
    [m EXCEPT !.opcode = 0,
              !.v = [r \in Reg |-> 0],
              !.i = 0,
              !.pc = PROGRAM_START,
              !.stack = [s \in 0..(STACK_SIZE - 1) |-> 0],
              !.sp = 0,
              !.delay_timer = 0,
              !.sound_timer = 0,
              !.display = Display_new,
              !.keypad = Keypad_new,
              !.wait_for_key = <<FALSE, 0>>]

should_shift_op_use_vy(m, b) == [m EXCEPT !.shift_op_use_vy = b]

\* is_waiting_for_key answering that the machine never waits.
is_waiting_for_key_never(m) == FALSE

is_waiting_for_key(m) == m.wait_for_key[1]

\* end_wait_for_key that delivers the key and leaves pc at the FX0A.
end_wait_for_key_keeping_pc(m, key_index) ==
    IF ~is_waiting_for_key(m)
    THEN m
    ELSE [m EXCEPT !.v[m.wait_for_key[2]] = AsU8(key_index),
                   !.wait_for_key[1] = FALSE]

\* end_wait_for_key without its check that the machine is waiting.
end_wait_for_key_unguarded(m, key_index) ==
    [m EXCEPT !.v[m.wait_for_key[2]] = AsU8(key_index),
              !.wait_for_key[1] = FALSE,
              !.pc = @ + 2]

\* end_wait_for_key that also records the key as pressed in the keypad.
end_wait_for_key_recording(m, key_index) ==
    IF ~is_waiting_for_key(m)
    THEN m
    ELSE [m EXCEPT !.v[m.wait_for_key[2]] = AsU8(key_index),
                   !.wait_for_key[1] = FALSE,
                   !.pc = @ + 2,
                   !.keypad = set_key_state(@, key_index, TRUE)]

end_wait_for_key(m, key_index) ==
    IF ~is_waiting_for_key(m)
    THEN m
    ELSE [m EXCEPT !.v[m.wait_for_key[2]] = AsU8(key_index),
                   !.wait_for_key[1] = FALSE,
                   !.pc = @ + 2]

\* memory[a] = b without the index check.
Store_unchecked(m, a, b) == IF m.panicked THEN m ELSE MemWrite(m, a, b)

\* memory[a] = b: the index check panics outside the array.
Store(m, a, b) ==
    IF m.panicked THEN m
    ELSE IF a >= MEMORY_SIZE THEN Panic(m)
    ELSE MemWrite(m, a, b)

\* The loop of Chip8::load from the k-th byte of the file on.
RECURSIVE LoadFrom(_, _, _)
LoadFrom(m, bytes, k) ==
    IF k >= Len(bytes) \/ m.panicked THEN m
    ELSE LoadFrom(Store(m, m.pc + k, bytes[k + 1]), bytes, k + 1)

load(m, bytes) == LoadFrom(m, bytes, 0)

\* A ROM file: whether File::open succeeds, the bytes it holds, and the number
\* of bytes read before a read fails (all of them when none fails).
RomFile(opened, bytes, read) == [opened |-> opened, bytes |-> bytes, read |-> read]

\* The loop of Chip8::load writing at PROGRAM_START + k.
RECURSIVE LoadFileFrom_at_program_start(_, _, _)
LoadFileFrom_at_program_start(m, file, k) ==
    IF k >= Len(file.bytes) \/ m.panicked THEN [machine |-> m, error |-> FALSE]
    ELSE IF k >= file.read THEN [machine |-> m, error |-> TRUE]
    ELSE LoadFileFrom_at_program_start(
             Store(m, PROGRAM_START + k, file.bytes[k + 1]), file, k + 1)

\* The loop of Chip8::load over the bytes of an opened file, from the k-th on:
\* the machine it leaves and whether load returns an error.
RECURSIVE LoadFileFrom(_, _, _)
LoadFileFrom(m, file, k) ==
    IF k >= Len(file.bytes) \/ m.panicked THEN [machine |-> m, error |-> FALSE]
    ELSE IF k >= file.read THEN [machine |-> m, error |-> TRUE]
    ELSE LoadFileFrom(Store(m, m.pc + k, file.bytes[k + 1]), file, k + 1)

\* Chip8::load on a file: the machine it leaves and whether it returns an
\* error description.
load_file(m, file) ==
    IF ~file.opened THEN [machine |-> m, error |-> TRUE]
    ELSE LoadFileFrom(m, file, 0)

----------------------------------------------------------------------------
(* The instructions (vm.rs:242-513).                                        *)

Advance(m, n) == [m EXCEPT !.pc = @ + n]

cls(m) == Advance([m EXCEPT !.display = Display_clear(m.display)], 2)

jump_addr(m, addr) == [m EXCEPT !.pc = addr]

\* sp -= 1 underflows at 0: a panic where overflow is checked; where it is not,
\* sp wraps to usize::MAX and the index check of stack[sp] panics.  The wrapped
\* sp is kept as 0 - 1, the integer that usize::MAX is congruent to.
ret(m) ==
    IF m.sp = 0
    THEN IF overflow_checks THEN Panic(m) ELSE Panic([m EXCEPT !.sp = @ - 1])
    ELSE IF m.sp - 1 >= STACK_SIZE THEN Panic(m)
    ELSE LET m1 == [m EXCEPT !.sp = @ - 1]
             addr == m1.stack[m1.sp]
         IN  Advance(jump_addr(m1, addr), 2)

\* call_addr that pushes the address called instead of the program counter.
call_addr_pushing_target(m, addr) ==
    IF m.sp >= STACK_SIZE THEN Panic(m)
    ELSE jump_addr([m EXCEPT !.stack[m.sp] = addr, !.sp = @ + 1], addr)

\* call_addr without the index check of stack[sp]: a full stack is left as it
\* is and sp still incremented.
call_addr_unchecked(m, addr) ==
    IF m.sp >= STACK_SIZE THEN jump_addr([m EXCEPT !.sp = @ + 1], addr)
    ELSE jump_addr([m EXCEPT !.stack[m.sp] = m.pc % 65536, !.sp = @ + 1], addr)

call_addr(m, addr) ==
    IF m.sp >= STACK_SIZE THEN Panic(m)
    ELSE jump_addr([m EXCEPT !.stack[m.sp] = m.pc % 65536, !.sp = @ + 1], addr)

se_vx_nn(m, x, nn) == Advance(m, IF m.v[x] = nn THEN 4 ELSE 2)

sne_vx_nn(m, x, nn) == Advance(m, IF m.v[x] # nn THEN 4 ELSE 2)

se_vx_vy(m, x, y) == Advance(m, IF m.v[x] = m.v[y] THEN 4 ELSE 2)

sne_vx_vy(m, x, y) == Advance(m, IF m.v[x] # m.v[y] THEN 4 ELSE 2)

skp_vx(m, x) ==
    IF ~KeyIndexValid(m.v[x]) THEN Panic(m)
    ELSE Advance(m, IF get_key_state(m.keypad, m.v[x]) THEN 4 ELSE 2)

sknp_vx(m, x) ==
    IF ~KeyIndexValid(m.v[x]) THEN Panic(m)
    ELSE Advance(m, IF get_key_state(m.keypad, m.v[x]) THEN 2 ELSE 4)

ld_vx_nn(m, x, nn) == Advance([m EXCEPT !.v[x] = nn], 2)

ld_vx_vy(m, x, y) == Advance([m EXCEPT !.v[x] = m.v[y]], 2)

ld_i_addr(m, addr) == Advance([m EXCEPT !.i = addr], 2)

\* add_vx_nn that sets the carry flag as add_vx_vy does.
add_vx_nn_with_carry(m, x, nn) ==
    LET new_vx_u16 == m.v[x] + nn
        m1 == [m EXCEPT !.v[x] = AsU8(new_vx_u16)]
        m2 == [m1 EXCEPT !.v[FLAG] = IF new_vx_u16 > 255 THEN 1 ELSE 0]
    IN  Advance(m2, 2)

add_vx_nn(m, x, nn) ==
    LET new_vx_u16 == m.v[x] + nn
    IN  Advance([m EXCEPT !.v[x] = AsU8(new_vx_u16)], 2)

add_i_vx(m, x) == Advance([m EXCEPT !.i = @ + m.v[x]], 2)

or_vx_vy(m, x, y) == Advance([m EXCEPT !.v[x] = BitOr(@, m.v[y])], 2)

and_vx_vy(m, x, y) == Advance([m EXCEPT !.v[x] = BitAnd(@, m.v[y])], 2)

xor_vx_vy(m, x, y) == Advance([m EXCEPT !.v[x] = BitXor(@, m.v[y])], 2)

\* add_vx_vy whose carry test is off by one.
add_vx_vy_carry_from_255(m, x, y) ==
    LET new_vx_u16 == m.v[x] + m.v[y]
        m1 == [m EXCEPT !.v[x] = AsU8(new_vx_u16)]
        m2 == [m1 EXCEPT !.v[FLAG] = IF new_vx_u16 >= 255 THEN 1 ELSE 0]
    IN  Advance(m2, 2)

add_vx_vy(m, x, y) ==
    LET new_vx_u16 == m.v[x] + m.v[y]
        m1 == [m EXCEPT !.v[x] = AsU8(new_vx_u16)]
        m2 == [m1 EXCEPT !.v[FLAG] = IF new_vx_u16 > 255 THEN 1 ELSE 0]
    IN  Advance(m2, 2)

\* a - b in i8: out of i8's range it panics where overflow is checked and
\* wraps where it is not.
SubI8(m, a, b, x) ==
    LET exact == AsI8(a) - AsI8(b)
    IN  IF ~InI8(exact) /\ overflow_checks THEN Panic(m)
        ELSE LET new_vx_i8 == WrapI8(exact)
                 m1 == [m EXCEPT !.v[x] = AsU8(new_vx_i8)]
                 m2 == [m1 EXCEPT !.v[FLAG] = IF new_vx_i8 < 0 THEN 1 ELSE 0]
             IN  Advance(m2, 2)

sub_vx_vy(m, x, y) == SubI8(m, m.v[x], m.v[y], x)

subn_vx_vy(m, x, y) == SubI8(m, m.v[y], m.v[x], x)

shr_vx_vy(m, x, y) ==
    LET shift_on == IF m.shift_op_use_vy THEN y ELSE x
        m1 == [m EXCEPT !.v[FLAG] = BitAnd(m.v[shift_on], 1)]
        m2 == [m1 EXCEPT !.v[x] = m1.v[shift_on] \div 2]
    IN  Advance(m2, 2)

shl_vx_vy(m, x, y) ==
    LET shift_on == IF m.shift_op_use_vy THEN y ELSE x
        m1 == [m EXCEPT !.v[FLAG] = BitAnd(m.v[shift_on], 128)]
        m2 == [m1 EXCEPT !.v[x] = AsU8(m1.v[shift_on] * 2)]
    IN  Advance(m2, 2)

\* rnd is the byte random::<u8>() returns.
rnd_vx_nn(m, x, nn, rnd) == Advance([m EXCEPT !.v[x] = BitAnd(rnd, nn)], 2)

\* drw_vx_vy_n that sets VF on a collision and leaves it otherwise.
drw_vx_vy_n_keeping_flag(m, x, y, n) ==
    LET pos_x == m.v[x]
        pos_y == m.v[y]
        mem_start == m.i
        mem_end == m.i + n
    IN  IF mem_end > MEMORY_SIZE THEN Panic(m)
        ELSE LET sprite == [k \in 1..n |-> MemRead(m, mem_start + k - 1)]
                 r == Display_draw(m.display, pos_x, pos_y, sprite)
             IN  Advance([m EXCEPT !.display = r.display,
                                   !.v[FLAG] = IF r.collision THEN 1 ELSE @], 2)

\* &self.memory[mem_start..mem_end]: the slice's range check panics when
\* mem_end is beyond the array.
drw_vx_vy_n(m, x, y, n) ==
    LET pos_x == m.v[x]
        pos_y == m.v[y]
        mem_start == m.i
        mem_end == m.i + n
    IN  IF mem_end > MEMORY_SIZE THEN Panic(m)
        ELSE LET sprite == [k \in 1..n |-> MemRead(m, mem_start + k - 1)]
                 r == Display_draw(m.display, pos_x, pos_y, sprite)
             IN  Advance([m EXCEPT !.display = r.display,
                                   !.v[FLAG] = IF r.collision THEN 1 ELSE 0], 2)

ld_vx_dt(m, x) == Advance([m EXCEPT !.v[x] = m.delay_timer], 2)

ld_dt_vx(m, x) == Advance([m EXCEPT !.delay_timer = m.v[x]], 2)

ld_st_vx(m, x) == Advance([m EXCEPT !.sound_timer = m.v[x]], 2)

\* ld_vx_key that advances pc like the other instructions.
ld_vx_key_advancing(m, x) == Advance([m EXCEPT !.wait_for_key = <<TRUE, x>>], 2)

ld_vx_key(m, x) == [m EXCEPT !.wait_for_key = <<TRUE, x>>]

\* self.v[x] * 5 is a u8 product: beyond 255 it panics where overflow is
\* checked and wraps where it is not.
ld_i_font_vx(m, x) ==
    IF m.v[x] * 5 > 255 /\ overflow_checks THEN Panic(m)
    ELSE Advance([m EXCEPT !.i = AsU8(m.v[x] * 5)], 2)

\* ld_mem_i_bcd_vx storing vx / 10 as the second digit.
ld_mem_i_bcd_vx_tens_unreduced(m, x) ==
    LET vx == m.v[x]
        m1 == Store(m, m.i, vx \div 100)
        m2 == Store(m1, m.i + 1, vx \div 10)
        m3 == Store(m2, m.i + 2, (vx % 100) % 10)
    IN  IF m3.panicked THEN m3 ELSE Advance(m3, 2)

ld_mem_i_bcd_vx(m, x) ==
    LET vx == m.v[x]
        m1 == Store(m, m.i, vx \div 100)
        m2 == Store(m1, m.i + 1, (vx \div 10) % 10)
        m3 == Store(m2, m.i + 2, (vx % 100) % 10)
    IN  IF m3.panicked THEN m3 ELSE Advance(m3, 2)

\* for j in 0..x_usize { self.memory[self.i + j] = self.v[j]; }, from j on.
RECURSIVE StoreRegsFrom(_, _, _)
StoreRegsFrom(m, j, x_usize) ==
    IF j >= x_usize \/ m.panicked THEN m
    ELSE StoreRegsFrom(Store(m, m.i + j, m.v[j]), j + 1, x_usize)

ld_mem_i_regs(m, x) ==
    LET x_usize == x
        m1 == StoreRegsFrom(m, 0, x_usize)
    IN  IF m1.panicked THEN m1
        ELSE Advance([m1 EXCEPT !.i = @ + x_usize + 1], 2)

\* for j in 0..x_usize { self.v[j] = self.memory[self.i + j]; }, from j on.
RECURSIVE LoadRegsFrom(_, _, _)
LoadRegsFrom(m, j, x_usize) ==
    IF j >= x_usize \/ m.panicked THEN m
    ELSE IF m.i + j >= MEMORY_SIZE THEN Panic(m)
    ELSE LoadRegsFrom([m EXCEPT !.v[j] = MemRead(m, m.i + j)], j + 1, x_usize)

\* ld_regs_mem_i that advances I by X.
ld_regs_mem_i_advancing_x(m, x) ==
    LET x_usize == x
        m1 == LoadRegsFrom(m, 0, x_usize)
    IN  IF m1.panicked THEN m1
        ELSE Advance([m1 EXCEPT !.i = @ + x_usize], 2)

ld_regs_mem_i(m, x) ==
    LET x_usize == x
        m1 == LoadRegsFrom(m, 0, x_usize)
    IN  IF m1.panicked THEN m1
        ELSE Advance([m1 EXCEPT !.i = @ + x_usize + 1], 2)

\* op_not_implemented!: a message is printed, the machine is left as it is.
op_not_implemented(m, op) == m

----------------------------------------------------------------------------
(* Decoding (vm.rs:186-240).                                                *)

\* The nibbles (a, b, c, d) of the opcode 0xABCD: (op & 0xF000) >> 12,
\* (op & 0x0F00) >> 8, (op & 0x00F0) >> 4, op & 0x000F.
opcode_tuple(op) ==
    << (op \div 4096) % 16, (op \div 256) % 16, (op \div 16) % 16, op % 16 >>

\* op & 0x0FFF + v0: in Rust + binds tighter than &.
jump_v0_target(op, v0) == BitAnd(op, 4095 + v0)

execute_opcode(m, op, rnd) ==
    LET t == opcode_tuple(op)
        x == t[2]
        y == t[3]
        n == t[4]
        addr == op % 4096    \* op & 0x0FFF
        nn == op % 256       \* op & 0x00FF
    IN  CASE t = <<0, 0, 14, 0>>         -> cls(m)
          [] t = <<0, 0, 14, 14>>        -> ret(m)
          [] t[1] = 1                    -> jump_addr(m, addr)
          [] t[1] = 2                    -> call_addr(m, addr)
          [] t[1] = 3                    -> se_vx_nn(m, x, nn)
          [] t[1] = 4                    -> sne_vx_nn(m, x, nn)
          [] t[1] = 5 /\ n = 0           -> se_vx_vy(m, x, y)
          [] t[1] = 6                    -> ld_vx_nn(m, x, nn)
          [] t[1] = 7                    -> add_vx_nn(m, x, nn)
          [] t[1] = 8 /\ n = 0           -> ld_vx_vy(m, x, y)
          [] t[1] = 8 /\ n = 1           -> or_vx_vy(m, x, y)
          [] t[1] = 8 /\ n = 2           -> and_vx_vy(m, x, y)
          [] t[1] = 8 /\ n = 3           -> xor_vx_vy(m, x, y)
          [] t[1] = 8 /\ n = 4           -> add_vx_vy(m, x, y)
          [] t[1] = 8 /\ n = 5           -> sub_vx_vy(m, x, y)
          [] t[1] = 8 /\ n = 6           -> shr_vx_vy(m, x, y)
          [] t[1] = 8 /\ n = 7           -> subn_vx_vy(m, x, y)
          [] t[1] = 8 /\ n = 14          -> shl_vx_vy(m, x, y)
          [] t[1] = 9 /\ n = 0           -> sne_vx_vy(m, x, y)
          [] t[1] = 10                   -> ld_i_addr(m, addr)
          [] t[1] = 11                   -> jump_addr(m, jump_v0_target(op, m.v[0]))
          [] t[1] = 12                   -> rnd_vx_nn(m, x, nn, rnd)
          [] t[1] = 13                   -> drw_vx_vy_n(m, x, y, n)
          [] t[1] = 14 /\ y = 9 /\ n = 14  -> skp_vx(m, x)
          [] t[1] = 14 /\ y = 10 /\ n = 1  -> sknp_vx(m, x)
          [] t[1] = 15 /\ y = 0 /\ n = 7   -> ld_vx_dt(m, x)
          [] t[1] = 15 /\ y = 0 /\ n = 10  -> ld_vx_key(m, x)
          [] t[1] = 15 /\ y = 1 /\ n = 5   -> ld_dt_vx(m, x)
          [] t[1] = 15 /\ y = 1 /\ n = 8   -> ld_st_vx(m, x)
          [] t[1] = 15 /\ y = 1 /\ n = 14  -> add_i_vx(m, x)
          [] t[1] = 15 /\ y = 2 /\ n = 9   -> ld_i_font_vx(m, x)
          [] t[1] = 15 /\ y = 3 /\ n = 3   -> ld_mem_i_bcd_vx(m, x)
          [] t[1] = 15 /\ y = 5 /\ n = 5   -> ld_mem_i_regs(m, x)
          [] t[1] = 15 /\ y = 6 /\ n = 5   -> ld_regs_mem_i(m, x)
          [] OTHER                       -> op_not_implemented(m, op)

\* The check of emulate_cycle with > for >=: a fetch at 4094 is let through.
program_finished_past_end(m) == m.pc > END_OF_PROGRAM

\* Whether emulate_cycle reports that the program is done.
program_finished(m) == m.pc >= END_OF_PROGRAM

\* The fetch with the two bytes in the other order.
fetch_little_endian(m) == BitOr(MemRead(m, m.pc + 1) * 256, MemRead(m, m.pc))

\* The opcode emulate_cycle fetches: memory[pc] << 8 | memory[pc + 1].
fetch(m) == BitOr(MemRead(m, m.pc) * 256, MemRead(m, m.pc + 1))

emulate_cycle(m, rnd) ==
    IF program_finished(m) THEN m
    ELSE LET op == fetch(m)
         IN  execute_opcode([m EXCEPT !.opcode = op], op, rnd)

----------------------------------------------------------------------------
(* The application (src/src/bin): a frontend thread that collects the       *)
(* events and renders, a VM thread that owns the machine, and one channel   *)
(* in each direction.                                                       *)

\* Chip8VMCommand, sent by the frontend: UpdateRunStatus(run),
\* UpdateKeyStatus(index, Pressed | Released), Reset and Quit.  flag is the
\* run status of the first and TRUE for Pressed in the second.
UpdateRunStatus(run) == [type |-> "UpdateRunStatus", index |-> 0, flag |-> run]

UpdateKeyStatus(index, pressed) ==
    [type |-> "UpdateKeyStatus", index |-> index, flag |-> pressed]

ResetVM == [type |-> "Reset", index |-> 0, flag |-> FALSE]

Quit == [type |-> "Quit", index |-> 0, flag |-> FALSE]

\* Chip8UICommand, sent by the VM thread: UpdateBeepingStatus(beeping),
\* UpdateDisplay(display), which carries a copy of the display, and Finished.
UpdateBeepingStatus(beeping) ==
    [type |-> "UpdateBeepingStatus", beeping |-> beeping, gfx |-> {}]

UpdateDisplay(display) ==
    [type |-> "UpdateDisplay", beeping |-> FALSE, gfx |-> display.gfx]

Finished == [type |-> "Finished", beeping |-> FALSE, gfx |-> {}]

\* The key last delivered to a waiting machine when there is none: an index
\* no key has.
NoKey == NUM_KEYS

\* The application once the ROM is loaded and both threads are started.
\* VM thread: running (FALSE when paused), last_key (the key last delivered
\* to a waiting machine), phase (its place in the iteration of its loop:
\* "commands", "timers", "display"), terminated.  Frontend: paused,
\* keys_pressed.  Channels: vm_commands (frontend to VM), ui_commands (VM to
\* frontend), oldest first; closed, the frontend has left its loop.
\* History: sent, the number of commands sent; displays, the number of
\* UpdateDisplay sent; drawn, whether an instruction or a command has
\* written the display since the last UpdateDisplay.
Chip8Emulator_new ==
    [running      |-> TRUE,
     last_key     |-> NoKey,
     phase        |-> "commands",
     terminated   |-> FALSE,
     paused       |-> FALSE,
     keys_pressed |-> {},
     closed       |-> FALSE,
     vm_commands  |-> << >>,
     ui_commands  |-> << >>,
     sent         |-> 0,
     displays     |-> 0,
     drawn        |-> FALSE]

\* The consumer of the display has rendered it and clears the flag.
Display_rendered_keeping_dirty(d) == d

Display_rendered(d) == [d EXCEPT !.dirty = FALSE]

\* A step of the 60 Hz clock that leaves the sound timer alone.
update_timers_delay_only(m) ==
    [m EXCEPT !.delay_timer = IF @ > 0 THEN @ - 1 ELSE @]

\* A step of the 60 Hz clock that decrements a timer at 0 as well.
update_timers_wrapping(m) ==
    [m EXCEPT !.delay_timer = AsU8(@ + 255),
              !.sound_timer = AsU8(@ + 255)]

\* One step of the 60 Hz clock on the timers.
update_timers(m) ==
    [m EXCEPT !.delay_timer = IF @ > 0 THEN @ - 1 ELSE @,
              !.sound_timer = IF @ > 0 THEN @ - 1 ELSE @]

\* The notification the VM thread sends for a step that took the machine
\* from before to after: one when the sound timer went across zero.
beeping_status(before, after) ==
    IF (before.sound_timer > 0) # (after.sound_timer > 0)
    THEN << UpdateBeepingStatus(after.sound_timer > 0) >>
    ELSE << >>

\* The VM thread applies UpdateKeyStatus(index, pressed) to machine m with
\* last_key the key last delivered: a waiting machine is given a key pressed
\* that differs from last_key and forgets last_key on a key released, and its
\* keypad is left alone; a machine that is not waiting has the state of the
\* key recorded.
update_key_status(m, last_key, index, pressed) ==
    IF is_waiting_for_key(m)
    THEN IF pressed
         THEN IF index # last_key
              THEN [vm |-> end_wait_for_key(m, index), last_key |-> index]
              ELSE [vm |-> m, last_key |-> last_key]
         ELSE [vm |-> m, last_key |-> NoKey]
    ELSE [vm |-> [m EXCEPT !.keypad = set_key_state(@, index, pressed)],
          last_key |-> last_key]

\* The instruction clock's condition for a step of the machine.
cpu_may_step(m, running) == running /\ ~is_waiting_for_key(m)

\* The VM thread applies command c, taken from its channel, to machine m:
\* the machine and the application it leaves.  Quit ends the thread, which
\* sends Finished first.
on_vm_command(m, e, c) ==
    IF c.type = "UpdateRunStatus"
    THEN [vm |-> m, emulator |-> [e EXCEPT !.running = c.flag]]
    ELSE IF c.type = "UpdateKeyStatus"
    THEN LET r == update_key_status(m, e.last_key, c.index, c.flag)
         IN  [vm |-> r.vm, emulator |-> [e EXCEPT !.last_key = r.last_key]]
    ELSE IF c.type = "Reset"
    THEN [vm |-> reset(m), emulator |-> [e EXCEPT !.drawn = TRUE]]
    ELSE [vm |-> m,
          emulator |-> [e EXCEPT !.terminated = TRUE,
                                 !.ui_commands = Append(@, Finished)]]

----------------------------------------------------------------------------
(* Bounds and inputs.                                                       *)

\* The number of operations performed on one machine.
MaxSteps == 3

\* The opcodes handed to execute_opcode on a machine driven from construction:
\* 00E0, 1300, 2300, 6142, 6FAA, A123, F115, F118, F00A, F30A, FF0A, and the
\* opcodes 0123, 5111, 8018, E000, F000, which match no instruction.
UnknownOps == { 291, 20753, 32792, 57344, 61440 }

Ops == { 224, 4864, 8960, 24898, 28586, 41251, 61717, 61720,
         61450, 62218, 65290 } \cup UnknownOps

\* The bytes random::<u8>() is taken to return.
RandBytes == {0, 165, 255}

\* The ROM files, as sequences of bytes: F00A F029 D795 1200 (the test
\* program of chip8app.rs:166) and 6007 F10A 1200.
Roms == { <<240, 10, 240, 41, 215, 149, 18, 0>>,
          <<96, 7, 241, 10, 18, 0>> }

\* The keys handed to end_wait_for_key.
KeyIndices == 0..(NUM_KEYS - 1)

\* The opcode recorded for an operation that executes none.
NoOpcode == 0 - 1

\* The opcode 00EE.
RET == 14 * 16 + 14

\* The file recorded for an operation that loads none.
NoFile == RomFile(FALSE, << >>, 0)

\* The command recorded for an operation that applies none.
NoCommand == [type |-> "none", index |-> 0, flag |-> FALSE]

NoOperation ==
    [kind |-> "none", op |-> NoOpcode, key |-> 0, waiting |-> FALSE, run |-> 0,
     calls |-> << >>, finished |-> FALSE, draw |-> << >>, gfx |-> {},
     collision |-> FALSE, repeat |-> FALSE, dirty |-> TRUE, cmd |-> NoCommand,
     file |-> NoFile, error |-> FALSE, stored |-> <<0, 0>>, ticks |-> <<0, 0>>]

\* The addresses of the 2NNN executed and not yet returned from, oldest first,
\* once the operation is performed on vm.
CallsAfter(kind, op) ==
    IF kind = "reset" THEN << >>
    ELSE IF kind \notin {"execute_opcode", "emulate_cycle"} \/ op = NoOpcode
         THEN last.calls
    ELSE IF opcode_tuple(op)[1] = 2 THEN Append(last.calls, vm.pc)
    ELSE IF op = RET /\ Len(last.calls) > 0
         THEN SubSeq(last.calls, 1, Len(last.calls) - 1)
    ELSE last.calls

\* The record of an operation performed on vm: its kind, the opcode it
\* executes, the key it is given, whether vm was waiting for a key, how many
\* operations of this kind have been performed in a row, the calls not yet
\* returned from, what emulate_cycle returned, for Display::draw called
\* directly, its arguments, the pixels lit before it, what it returned and
\* whether the operation before was the same call, the display's dirty flag
\* before the operation, the command the VM thread applied, the file load
\* was given and whether it returned an error, and, where the timer steps are
\* counted, the values FX15 and FX18 last stored in the delay and the sound
\* timer (0 at construction) and the timer steps since.
Performed(kind, op, key) ==
    [kind |-> kind, op |-> op, key |-> key,
     waiting |-> is_waiting_for_key(vm),
     run |-> IF last.kind = kind THEN last.run + 1 ELSE 1,
     calls |-> CallsAfter(kind, op),
     finished |-> kind = "emulate_cycle" /\ program_finished(vm),
     draw |-> << >>,
     gfx |-> {},
     collision |-> FALSE,
     repeat |-> FALSE,
     dirty |-> vm.display.dirty,
     cmd |-> NoCommand,
     file |-> NoFile,
     error |-> FALSE,
     stored |-> last.stored,
     ticks |-> last.ticks]

IsRnd(op) == op # NoOpcode /\ opcode_tuple(op)[1] = 12

\* The opcode emulate_cycle executes on m, if any.
CycleOpcode(m) == IF program_finished(m) THEN NoOpcode ELSE fetch(m)

----------------------------------------------------------------------------
(* The machine driven through its public operations from construction.      *)

Init ==
    /\ vm = Chip8_new
    /\ overflow_checks \in BOOLEAN
    /\ emulator = Chip8Emulator_new
    /\ last = NoOperation
    /\ steps = 0

CanStep == ~vm.panicked /\ steps < MaxSteps

ExecuteOpcode ==
    /\ CanStep
    /\ \E op \in Ops :
         \E rnd \in (IF IsRnd(op) THEN RandBytes ELSE {0}) :
            /\ vm' = execute_opcode(vm, op, rnd)
            /\ last' = Performed("execute_opcode", op, 0)
    /\ steps' = steps + 1
    /\ UNCHANGED <<overflow_checks, emulator>>

EmulateCycle ==
    /\ CanStep
    /\ \E rnd \in (IF IsRnd(CycleOpcode(vm)) THEN RandBytes ELSE {0}) :
         vm' = emulate_cycle(vm, rnd)
    /\ last' = Performed("emulate_cycle", CycleOpcode(vm), 0)
    /\ steps' = steps + 1
    /\ UNCHANGED <<overflow_checks, emulator>>

EndWaitForKey ==
    /\ CanStep
    /\ \E k \in KeyIndices :
         /\ vm' = end_wait_for_key(vm, k)
         /\ last' = Performed("end_wait_for_key", NoOpcode, k)
    /\ steps' = steps + 1
    /\ UNCHANGED <<overflow_checks, emulator>>

Reset ==
    /\ CanStep
    /\ vm' = reset(vm)
    /\ last' = Performed("reset", NoOpcode, 0)
    /\ steps' = steps + 1
    /\ UNCHANGED <<overflow_checks, emulator>>

Load ==
    /\ CanStep
    /\ \E rom \in Roms : vm' = load(vm, rom)
    /\ last' = Performed("load", NoOpcode, 0)
    /\ steps' = steps + 1
    /\ UNCHANGED <<overflow_checks, emulator>>

Next ==
    \/ ExecuteOpcode
    \/ EmulateCycle
    \/ EndWaitForKey
    \/ Reset
    \/ Load

Spec == Init /\ [][Next]_vars

----------------------------------------------------------------------------
(* One instruction executed by execute_opcode on a prepared machine.        *)

\* execute_opcode called once, with an opcode of ops.
ExecuteOneOf(ops) ==
    /\ ~vm.panicked
    /\ steps = 0
    /\ \E op \in ops :
         \E rnd \in (IF IsRnd(op) THEN RandBytes ELSE {0}) :
            /\ vm' = execute_opcode(vm, op, rnd)
            /\ last' = Performed("execute_opcode", op, 0)
    /\ steps' = 1
    /\ UNCHANGED <<overflow_checks, emulator>>

\* The machine after 60aa 6Faa 61bb 1200: V0 and VF hold a, V1 holds b,
\* pc is back at 0x200.
RegsMachine(a, b) ==
    [Chip8_new EXCEPT !.v[0] = a, !.v[FLAG] = a, !.v[1] = b]

\* 8XY4, 8XY5, 8XY7 on (V0, V1), (VF, V1), (V1, VF) and (V0, V0).
RegOps ==
    { 32768 + 256 * xy[1] + 16 * xy[2] + n :
        xy \in { <<0, 1>>, <<FLAG, 1>>, <<1, FLAG>>, <<0, 0>> }, n \in {4, 5, 7} }

InitRegs ==
    /\ \E a \in Byte, b \in Byte : vm = RegsMachine(a, b)
    /\ overflow_checks \in BOOLEAN
    /\ emulator = Chip8Emulator_new
    /\ last = NoOperation
    /\ steps = 0

ExecuteRegOp == ExecuteOneOf(RegOps)

SpecRegs == InitRegs /\ [][ExecuteRegOp]_vars

\* Addresses jumped to: in the font, at the program's start, in the program,
\* at the end of memory.
JumpAddrs == {0, 1, 512, 767, 768, 2748, 4094, 4095}

\* 70NN and 7FNN for every byte NN; BNNN for the addresses of JumpAddrs.
ImmOps ==
    { 28672 + nn : nn \in Byte } \cup { 32512 + nn : nn \in Byte }
    \cup { 45056 + nnn : nnn \in JumpAddrs }

\* The machine after 60aa 6Faa 1200: V0 and VF hold a.
InitImm ==
    /\ \E a \in Byte : vm = RegsMachine(a, 0)
    /\ overflow_checks \in BOOLEAN
    /\ emulator = Chip8Emulator_new
    /\ last = NoOperation
    /\ steps = 0

ExecuteImmOp == ExecuteOneOf(ImmOps)

SpecImm == InitImm /\ [][ExecuteImmOp]_vars

\* The machine after a ROM is loaded, 6r(16r+1) for every register r, Annn
\* (then F01E or FF1E for an address beyond 0xFFF) and 1200: Vr holds
\* 16r + 1, I holds the address, pc is back at 0x200.
MemMachine(rom, addr) ==
    [load(Chip8_new, rom) EXCEPT !.v = [r \in Reg |-> 16 * r + 1], !.i = addr]

\* Addresses in the font, in the program, in free memory, at the end of
\* memory and beyond it.
MemAddrs == {0, 77, 512, 514, 1280, 4079, 4080, 4081, 4090, 4093, 4094, 4095,
             4096, 4336}

\* FX55 and FX65 for every register X; F033 and FF33; D010, D011, D012, D01F.
MemOps ==
    { 61525 + 256 * x : x \in Reg } \cup { 61541 + 256 * x : x \in Reg }
    \cup { 61491, 65331 } \cup { 53264 + n : n \in {0, 1, 2, 15} }

InitMem ==
    /\ \E rom \in Roms, addr \in MemAddrs : vm = MemMachine(rom, addr)
    /\ overflow_checks \in BOOLEAN
    /\ emulator = Chip8Emulator_new
    /\ last = NoOperation
    /\ steps = 0

ExecuteMemOp == ExecuteOneOf(MemOps)

SpecMem == InitMem /\ [][ExecuteMemOp]_vars

----------------------------------------------------------------------------
(* Calls and returns executed on a machine with calls outstanding.          *)

\* The number of calls and returns executed on one machine.
MaxCallSteps == 5

\* The addresses called: 0x300 and 0xBBB.
CallTargets == <<768, 3003>>

\* 2300, 2BBB and 00EE.
CallOps == { 8192 + CallTargets[t] : t \in 1..2 } \cup { RET }

\* The fresh machine after k nested calls, to 0xBBB and 0x300 in turn, and
\* the addresses at which the k calls are executed.
RECURSIVE NestedCalls(_)
NestedCalls(k) ==
    IF k = 0 THEN [machine |-> Chip8_new, sites |-> << >>]
    ELSE LET before == NestedCalls(k - 1)
             op == 8192 + CallTargets[(k % 2) + 1]
         IN  [machine |-> execute_opcode(before.machine, op, 0),
              sites |-> Append(before.sites, before.machine.pc)]

InitCalls ==
    /\ \E k \in 0..STACK_SIZE :
         LET nested == NestedCalls(k)
         IN  /\ vm = nested.machine
             /\ last = [NoOperation EXCEPT !.calls = nested.sites]
    /\ overflow_checks \in BOOLEAN
    /\ emulator = Chip8Emulator_new
    /\ steps = 0

ExecuteCallOp ==
    /\ ~vm.panicked
    /\ steps < MaxCallSteps
    /\ \E op \in CallOps :
         /\ vm' = execute_opcode(vm, op, 0)
         /\ last' = Performed("execute_opcode", op, 0)
    /\ steps' = steps + 1
    /\ UNCHANGED <<overflow_checks, emulator>>

ResetCalls ==
    /\ ~vm.panicked
    /\ steps < MaxCallSteps
    /\ vm' = reset(vm)
    /\ last' = Performed("reset", NoOpcode, 0)
    /\ steps' = steps + 1
    /\ UNCHANGED <<overflow_checks, emulator>>

NextCalls ==
    \/ ExecuteCallOp
    \/ ResetCalls

SpecCalls == InitCalls /\ [][NextCalls]_vars

----------------------------------------------------------------------------
(* A loaded program run by emulate_cycle.                                   *)

\* The number of cycles run on one machine.
MaxCycles == 5

\* The instructions of the programs run: 0000, 00EE, 1000, 1204, 1FFD, 1FFE,
\* 2FFC, 3012, 6012, AFFF, B204, C00F, D001, F00A.
RunOps == { 0, RET, 4096, 4612, 8189, 8190, 12284, 12306, 24594, 45055, 45572,
            49167, 53249, 61450 }

\* The ROM files run: every program of three of these instructions.
RunRoms ==
    { << a \div 256, a % 256, b \div 256, b % 256, c \div 256, c % 256 >> :
        a \in RunOps, b \in RunOps, c \in RunOps }

InitRun ==
    /\ \E rom \in RunRoms : vm = load(Chip8_new, rom)
    /\ overflow_checks \in BOOLEAN
    /\ emulator = Chip8Emulator_new
    /\ last = NoOperation
    /\ steps = 0

RunCycle ==
    /\ ~vm.panicked
    /\ steps < MaxCycles
    /\ \E rnd \in (IF IsRnd(CycleOpcode(vm)) THEN RandBytes ELSE {0}) :
         vm' = emulate_cycle(vm, rnd)
    /\ last' = Performed("emulate_cycle", CycleOpcode(vm), 0)
    /\ steps' = steps + 1
    /\ UNCHANGED <<overflow_checks, emulator>>

SpecRun == InitRun /\ [][RunCycle]_vars

----------------------------------------------------------------------------
(* One skip instruction executed on a prepared machine.                     *)

\* The values of V1 and of NN compared with V0.
SkipValues == {0, 7, 255}

\* The key held down.
SkipKeys == {0, 7, 15}

\* The machine after 60aa 61bb 1200 with the key pressed: V0 holds a, V1
\* holds b, pc is back at 0x200.
SkipMachine(a, b, key) ==
    [Chip8_new EXCEPT !.v[0] = a, !.v[1] = b,
                      !.keypad = set_key_state(Keypad_new, key, TRUE)]

\* 30NN and 40NN for the values compared; 5010, 9010, 5000, 9000; E09E, E0A1.
SkipOps ==
    { 12288 + nn : nn \in SkipValues } \cup { 16384 + nn : nn \in SkipValues }
    \cup { 20496, 36880, 20480, 36864, 57502, 57505 }

InitSkips ==
    /\ \E a \in Byte, b \in SkipValues, key \in SkipKeys :
         vm = SkipMachine(a, b, key)
    /\ overflow_checks \in BOOLEAN
    /\ emulator = Chip8Emulator_new
    /\ last = NoOperation
    /\ steps = 0

ExecuteSkipOp == ExecuteOneOf(SkipOps)

SpecSkips == InitSkips /\ [][ExecuteSkipOp]_vars

----------------------------------------------------------------------------
(* Sprites drawn by Display::draw and by DXYN.                              *)

\* The number of draws performed on one display.
MaxDraws == 2

\* The positions drawn at: inside the screen, across its right and bottom
\* edges, and the largest a register holds.
DrawPositions == { <<25, 7>>, <<62, 30>>, <<255, 255>> }

\* The sprites drawn: one full row, the three rows of the test drawing
\* (vm_test.rs:232), and fifteen rows, the glyphs 0, 1 and 2 of the font.
Sprites == { <<255>>, <<231, 102, 60>>, SubSeq(FONT_SET, 1, 15) }

\* The ROM file loaded: sprite data.
DrawRom == <<231, 102, 60, 255, 129, 129, 255, 24, 24, 24, 24, 24, 24, 255, 1, 128>>

\* The address I holds and the position V0, V1 hold: the test drawing of the
\* ROM, the font drawn across the bottom right corner, the last three bytes
\* of the memory, the last two.
DrawOperands ==
    { <<512, 25, 7>>, <<0, 62, 30>>, <<4093, 255, 255>>, <<4094, 25, 7>> }

\* The pixels lit at the start: none, the test drawing at (25, 7), a full row
\* drawn across the bottom right corner.
InitDisplays ==
    { Display_new,
      Display_draw(Display_new, 25, 7, <<231, 102, 60>>).display,
      Display_draw(Display_new, 62, 31, <<255, 255>>).display }

\* D011, D013, D01F and DF13.
DrawOps == { 53265, 53267, 53279, 57107 }

InitDraw ==
    /\ \E d \in InitDisplays, o \in DrawOperands :
         vm = [load(Chip8_new, DrawRom) EXCEPT !.v[0] = o[2], !.v[1] = o[3],
                                               !.v[FLAG] = 1, !.i = o[1],
                                               !.display = d]
    /\ overflow_checks \in BOOLEAN
    /\ emulator = Chip8Emulator_new
    /\ last = NoOperation
    /\ steps = 0

\* Display::draw called on the machine's display.
Draw ==
    /\ ~vm.panicked
    /\ steps < MaxDraws
    /\ \E pos \in DrawPositions, sprite \in Sprites :
         LET r == Display_draw(vm.display, pos[1], pos[2], sprite)
         IN  /\ vm' = [vm EXCEPT !.display = r.display]
             /\ last' = [Performed("draw", NoOpcode, 0) EXCEPT
                            !.draw = <<pos[1], pos[2], sprite>>,
                            !.gfx = vm.display.gfx,
                            !.collision = r.collision,
                            !.repeat = (last.kind = "draw"
                                        /\ last.draw = <<pos[1], pos[2], sprite>>)]
    /\ steps' = steps + 1
    /\ UNCHANGED <<overflow_checks, emulator>>

ExecuteDrawOp ==
    /\ ~vm.panicked
    /\ steps < MaxDraws
    /\ \E op \in DrawOps :
         /\ vm' = execute_opcode(vm, op, 0)
         /\ last' = Performed("execute_opcode", op, 0)
    /\ steps' = steps + 1
    /\ UNCHANGED <<overflow_checks, emulator>>

NextDraw ==
    \/ Draw
    \/ ExecuteDrawOp

SpecDraw == InitDraw /\ [][NextDraw]_vars

----------------------------------------------------------------------------
(* The interpreter's operations on a machine whose display a consumer       *)
(* renders.                                                                 *)

\* The number of operations of the interpreter performed on one machine.
MaxOperations == 2

\* The ROM file loaded: D005 00E0 F00A 1200.
DirtyRom == <<208, 5, 0, 224, 240, 10, 18, 0>>

\* The opcodes handed to execute_opcode: 00E0; D000, which draws no row,
\* D005, D00F; AFF8, after which D00F reads beyond the memory; 00EE, 1300,
\* 2300, 3000, 6142, 7001, 8014, 8016, 801E, C0FF, E09E, F007, F00A, F015,
\* F01E, F029, F033, F055, F065, 0123, which matches no instruction, and the
\* jumps 1000, into the font, and 1FFC, four bytes before the memory's end.
InterpreterOps ==
    { 224, 53248, 53253, 53263, 45048, RET, 4864, 8960, 12288, 24898, 28673,
      32788, 32790, 32798, 49407, 57502, 61447, 61450, 61461, 61470, 61481,
      61491, 61525, 61541, 291, 4096, 8188 }

\* The keys handed to end_wait_for_key.
InterpreterKeys == {0, 7}

InitDirty ==
    /\ vm = load(Chip8_new, DirtyRom)
    /\ overflow_checks \in BOOLEAN
    /\ emulator = Chip8Emulator_new
    /\ last = NoOperation
    /\ steps = 0

\* One operation of the interpreter: execute_opcode, emulate_cycle,
\* end_wait_for_key, reset or load.
InterpreterOperation ==
    /\ ~vm.panicked
    /\ steps < MaxOperations
    /\ \/ \E op \in InterpreterOps :
            \E rnd \in (IF IsRnd(op) THEN RandBytes ELSE {0}) :
               /\ vm' = execute_opcode(vm, op, rnd)
               /\ last' = Performed("execute_opcode", op, 0)
       \/ /\ vm' = emulate_cycle(vm, 0)
          /\ last' = Performed("emulate_cycle", CycleOpcode(vm), 0)
       \/ \E k \in InterpreterKeys :
            /\ vm' = end_wait_for_key(vm, k)
            /\ last' = Performed("end_wait_for_key", NoOpcode, k)
       \/ /\ vm' = reset(vm)
          /\ last' = Performed("reset", NoOpcode, 0)
       \/ /\ vm' = load(vm, DirtyRom)
          /\ last' = Performed("load", NoOpcode, 0)
    /\ steps' = steps + 1
    /\ UNCHANGED <<overflow_checks, emulator>>

\* The consumer renders the display when it is dirty and clears the flag.
Render ==
    /\ ~vm.panicked
    /\ vm.display.dirty
    /\ vm' = [vm EXCEPT !.display = Display_rendered(@)]
    /\ last' = Performed("render", NoOpcode, 0)
    /\ UNCHANGED <<overflow_checks, steps, emulator>>

NextDirty ==
    \/ InterpreterOperation
    \/ Render

SpecDirty == InitDirty /\ [][NextDirty]_vars

----------------------------------------------------------------------------
(* The shifts 8XY6 and 8XYE under both settings of the option.              *)

\* The values V0, V1 and VF hold.
ShiftValues == {0, 1, 6, 15, 127, 128, 129, 255}

\* The machine after should_shift_op_use_vy(use_vy), 60aa, 61bb, 6Fcc and
\* 1200.
ShiftMachine(a, b, c, use_vy) ==
    should_shift_op_use_vy(
        [Chip8_new EXCEPT !.v[0] = a, !.v[1] = b, !.v[FLAG] = c], use_vy)

\* 8XY6 and 8XYE on (V0, V1), (V0, V0), (V0, VF), (VF, V1) and (VF, VF).
ShiftOps ==
    { 32768 + 256 * xy[1] + 16 * xy[2] + n :
        xy \in { <<0, 1>>, <<0, 0>>, <<0, FLAG>>, <<FLAG, 1>>, <<FLAG, FLAG>> },
        n \in {6, 14} }

InitShifts ==
    /\ \E a \in ShiftValues, b \in ShiftValues, c \in ShiftValues, use_vy \in BOOLEAN :
         vm = ShiftMachine(a, b, c, use_vy)
    /\ overflow_checks \in BOOLEAN
    /\ emulator = Chip8Emulator_new
    /\ last = NoOperation
    /\ steps = 0

ExecuteShiftOp == ExecuteOneOf(ShiftOps)

SpecShifts == InitShifts /\ [][ExecuteShiftOp]_vars

----------------------------------------------------------------------------
(* FX33 and FX29 on every value of a register.                              *)

\* The addresses I holds: in the font, at the program's start, in free
\* memory, the last three with room for three bytes or less, and beyond the
\* memory.
DigitAddrs == {0, 512, 1280, 4093, 4094, 4095, 4096}

\* F333, FF33, F329 and FF29.
DigitOps == { 62259, 65331, 62249, 65321 }

\* The machine after a ROM is loaded, 63aa, 6Faa, Annn (then FF1E for the
\* address 4096) and 1200.
InitDigits ==
    /\ \E rom \in Roms, a \in Byte, addr \in DigitAddrs :
         vm = [load(Chip8_new, rom) EXCEPT !.v[3] = a, !.v[FLAG] = a, !.i = addr]
    /\ overflow_checks \in BOOLEAN
    /\ emulator = Chip8Emulator_new
    /\ last = NoOperation
    /\ steps = 0

ExecuteDigitOp == ExecuteOneOf(DigitOps)

SpecDigits == InitDigits /\ [][ExecuteDigitOp]_vars

----------------------------------------------------------------------------
(* reset on a machine that has run.                                         *)

\* The wait-for-key states: idle from construction, waiting for a key into
\* V3, idle after that wait.
WaitStates == { <<FALSE, 0>>, <<TRUE, 3>>, <<FALSE, 3>> }

\* The values both timers hold.
TimerValues == {0, 60}

\* The machine after should_shift_op_use_vy(use_vy), a ROM loaded, k nested
\* calls, 6r(16r+1) for every register r, A500, F055, F115, F118, a drawing,
\* key 7 pressed or not, and F30A executed or not.
InitReset ==
    /\ \E k \in {0, 1, STACK_SIZE}, rom \in Roms, d \in InitDisplays,
          w \in WaitStates, t \in TimerValues, pressed \in BOOLEAN,
          use_vy \in BOOLEAN :
         vm = [NestedCalls(k).machine EXCEPT
                  !.memory = MemWrite(load(Chip8_new, rom), 1280, 1).memory,
                  !.v = [r \in Reg |-> 16 * r + 1],
                  !.i = 1280,
                  !.delay_timer = t,
                  !.sound_timer = t,
                  !.display = d,
                  !.keypad = set_key_state(Keypad_new, 7, pressed),
                  !.wait_for_key = w,
                  !.shift_op_use_vy = use_vy]
    /\ overflow_checks \in BOOLEAN
    /\ emulator = Chip8Emulator_new
    /\ last = NoOperation
    /\ steps = 0

SpecReset == InitReset /\ [][Reset]_vars

----------------------------------------------------------------------------
(* load on a machine the interpreter has operated on.                       *)

\* The files handed to load: the ROMs, a file that cannot be opened, and a
\* ROM whose fourth byte cannot be read.
RomFiles ==
    { RomFile(TRUE, rom, Len(rom)) : rom \in Roms }
    \cup { RomFile(FALSE, << >>, 0), RomFile(TRUE, DirtyRom, 3) }

InitLoad ==
    /\ vm = Chip8_new
    /\ overflow_checks \in BOOLEAN
    /\ emulator = Chip8Emulator_new
    /\ last = NoOperation
    /\ steps = 0

LoadFile ==
    /\ ~vm.panicked
    /\ steps < MaxOperations
    /\ \E file \in RomFiles :
         LET r == load_file(vm, file)
         IN  /\ vm' = r.machine
             /\ last' = [Performed("load_file", NoOpcode, 0) EXCEPT
                            !.file = file, !.error = r.error]
    /\ steps' = steps + 1
    /\ UNCHANGED <<overflow_checks, emulator>>

NextLoad ==
    \/ InterpreterOperation
    \/ LoadFile

SpecLoad == InitLoad /\ [][NextLoad]_vars

----------------------------------------------------------------------------
(* The application running a ROM: the loop of the frontend                  *)
(* (chip8app_sdl2.rs) and the loop of the VM thread, each step of either an *)
(* action.  An iteration of the VM thread's loop takes the commands queued, *)
(* then steps the machine if the instruction clock is due, then the timers  *)
(* if the 60 Hz clock is due, then sends the display if it is dirty; phase  *)
(* is the part of the iteration that comes next.  The messages sent to the  *)
(* frontend stay in their channel.                                          *)

\* The number of commands the frontend sends.
MaxCommands == 3

\* The number of instruction steps of the VM thread.
MaxInstructions == 3

\* The keys of the keypad pressed and released.
EmulatorKeys == {3, 7}

\* The ROMs run: F00A 1200, D005 00E0 1200, and 1FFE, which jumps to the end
\* of the memory.
EmulatorRoms == { <<240, 10, 18, 0>>, <<208, 5, 0, 224, 18, 0>>, <<31, 254>> }

InitEmulator ==
    /\ \E rom \in EmulatorRoms : vm = load(Chip8_new, rom)
    /\ overflow_checks \in BOOLEAN
    /\ emulator = Chip8Emulator_new
    /\ last = NoOperation
    /\ steps = 0

\* tx.send(c) putting c in front of the commands queued.
SendVMCommand_in_front(e, c) ==
    [e EXCEPT !.vm_commands = <<c>> \o @, !.sent = @ + 1]

\* tx.send(c) by the frontend.
SendVMCommand(e, c) == [e EXCEPT !.vm_commands = Append(@, c), !.sent = @ + 1]

\* The frontend is in its loop.
FrontendRuns == ~emulator.closed

CanSend == emulator.sent < MaxCommands

\* Event::KeyDown for a key of the keypad that is not held: Pressed is sent
\* unless the frontend is paused.
KeyDown ==
    /\ FrontendRuns
    /\ \E k \in EmulatorKeys \ emulator.keys_pressed :
         /\ IF emulator.paused
            THEN emulator' = [emulator EXCEPT !.keys_pressed = @ \cup {k}]
            ELSE /\ CanSend
                 /\ emulator' = [SendVMCommand(emulator, UpdateKeyStatus(k, TRUE))
                                    EXCEPT !.keys_pressed = @ \cup {k}]
         /\ last' = Performed("key_down", NoOpcode, k)
    /\ UNCHANGED <<vm, overflow_checks, steps>>

\* Event::KeyUp for a key of the keypad that is held: Released is sent.
KeyUp ==
    /\ FrontendRuns
    /\ CanSend
    /\ \E k \in emulator.keys_pressed :
         /\ emulator' = [SendVMCommand(emulator, UpdateKeyStatus(k, FALSE))
                            EXCEPT !.keys_pressed = @ \ {k}]
         /\ last' = Performed("key_up", NoOpcode, k)
    /\ UNCHANGED <<vm, overflow_checks, steps>>

\* Return pressed and released: the pause is toggled.
KeyReturn ==
    /\ FrontendRuns
    /\ CanSend
    /\ emulator' = [SendVMCommand(emulator, UpdateRunStatus(emulator.paused))
                       EXCEPT !.paused = ~@]
    /\ last' = Performed("key_return", NoOpcode, 0)
    /\ UNCHANGED <<vm, overflow_checks, steps>>

\* Backspace pressed and released.
KeyBackspace ==
    /\ FrontendRuns
    /\ CanSend
    /\ emulator' = SendVMCommand(emulator, ResetVM)
    /\ last' = Performed("key_backspace", NoOpcode, 0)
    /\ UNCHANGED <<vm, overflow_checks, steps>>

\* Event::Quit, or Escape pressed and released.
KeyEscape ==
    /\ FrontendRuns
    /\ CanSend
    /\ emulator' = [SendVMCommand(emulator, Quit) EXCEPT !.paused = TRUE]
    /\ last' = Performed("key_escape", NoOpcode, 0)
    /\ UNCHANGED <<vm, overflow_checks, steps>>

\* The loop of the VM thread going on after Finished is sent.
VMRuns_after_finished == ~vm.panicked

\* The VM thread is in its loop.
VMRuns == ~emulator.terminated /\ ~vm.panicked

\* The application after the VM thread's step from machine `before` to
\* machine `after`, which leaves it in phase `phase`.
AfterStep(e, before, after, phase) ==
    [e EXCEPT !.phase = phase,
              !.ui_commands = @ \o beeping_status(before, after)]

\* The VM thread has taken every command queued in this iteration.
Drained == emulator.phase = "commands" /\ emulator.vm_commands = << >>

\* The iteration has not gone past its timer step, its display step.
BeforeTimers == Drained \/ emulator.phase = "timers"

BeforeDisplay == BeforeTimers \/ emulator.phase = "display"

\* The VM thread takes the oldest command queued and applies it.
ReceiveVMCommand ==
    /\ VMRuns
    /\ emulator.phase = "commands"
    /\ emulator.vm_commands # << >>
    /\ LET c == Head(emulator.vm_commands)
           r == on_vm_command(vm, [emulator EXCEPT !.vm_commands = Tail(@)], c)
       IN  /\ vm' = r.vm
           /\ emulator' = AfterStep(r.emulator, vm, r.vm, "commands")
           /\ last' = [Performed("command", NoOpcode, 0) EXCEPT !.cmd = c]
    /\ UNCHANGED <<overflow_checks, steps>>

\* The instruction executed by emulate_cycle writes the display.
DrawsDisplay(op, after) ==
    /\ op # NoOpcode
    /\ op = 224 \/ opcode_tuple(op)[1] = 13
    /\ ~after.panicked

\* Every command is taken and the instruction clock is due: emulate_cycle, and
\* the end of the thread, which sends Finished first, when the program has
\* finished.
InstructionStep ==
    /\ VMRuns
    /\ Drained
    /\ cpu_may_step(vm, emulator.running)
    /\ steps < MaxInstructions
    /\ LET after == emulate_cycle(vm, 0)
           e == [AfterStep(emulator, vm, after, "timers") EXCEPT
                    !.drawn = @ \/ DrawsDisplay(CycleOpcode(vm), after)]
       IN  /\ vm' = after
           /\ emulator' = IF program_finished(vm)
                          THEN [e EXCEPT !.terminated = TRUE,
                                         !.ui_commands = Append(@, Finished)]
                          ELSE e
    /\ last' = Performed("emulate_cycle", CycleOpcode(vm), 0)
    /\ steps' = steps + 1
    /\ UNCHANGED overflow_checks

\* The 60 Hz clock is due, whether the instruction clock was or not, and the
\* machine is not paused.
TimerStep ==
    /\ VMRuns
    /\ BeforeTimers
    /\ emulator.running
    /\ vm' = update_timers(vm)
    /\ emulator' = AfterStep(emulator, vm, update_timers(vm), "display")
    /\ last' = Performed("update_timers", NoOpcode, 0)
    /\ UNCHANGED <<overflow_checks, steps>>

\* The end of the iteration, whether the clocks were due or not, with the
\* display dirty: a copy is sent and the flag cleared.
SendDisplay ==
    /\ VMRuns
    /\ BeforeDisplay
    /\ vm.display.dirty
    /\ vm' = [vm EXCEPT !.display = Display_rendered(@)]
    /\ emulator' = [emulator EXCEPT !.phase = "commands",
                                    !.ui_commands = Append(@, UpdateDisplay(vm.display)),
                                    !.displays = @ + 1,
                                    !.drawn = FALSE]
    /\ last' = Performed("update_display", NoOpcode, 0)
    /\ UNCHANGED <<overflow_checks, steps>>

\* The end of an iteration that stepped the machine or the timers, with the
\* display not dirty: nothing is sent.  (An iteration that takes no command,
\* steps nothing and sends nothing leaves every variable as it is.)
NoDisplay ==
    /\ VMRuns
    /\ emulator.phase # "commands"
    /\ ~vm.display.dirty
    /\ emulator' = [emulator EXCEPT !.phase = "commands"]
    /\ last' = Performed("no_display", NoOpcode, 0)
    /\ UNCHANGED <<vm, overflow_checks, steps>>

NextEmulator ==
    \/ KeyDown
    \/ KeyUp
    \/ KeyReturn
    \/ KeyBackspace
    \/ KeyEscape
    \/ ReceiveVMCommand
    \/ InstructionStep
    \/ TimerStep
    \/ SendDisplay
    \/ NoDisplay

SpecEmulator == InitEmulator /\ [][NextEmulator]_vars

----------------------------------------------------------------------------
(* The application from start to shutdown: the two loops of SpecEmulator,   *)
(* the frontend taking the messages of the VM thread from its channel, one  *)
(* per frame, and each thread going round its loop for as long as it lives. *)
(* The frontend toggles the pause and quits.                                *)

\* The ROMs run: F00A 1200, D005 00E0 1200, and 6334 F329 1200.
QuitRoms == { <<240, 10, 18, 0>>, <<208, 5, 0, 224, 18, 0>>,
              <<99, 52, 243, 41, 18, 0>> }

InitQuit ==
    /\ \E rom \in QuitRoms : vm = load(Chip8_new, rom)
    /\ overflow_checks \in BOOLEAN
    /\ emulator = Chip8Emulator_new
    /\ last = NoOperation
    /\ steps = 0

\* rx.try_recv() by the frontend, which leaves its loop on Finished.
ReceiveUICommand ==
    /\ FrontendRuns
    /\ emulator.ui_commands # << >>
    /\ emulator' = [emulator EXCEPT
                       !.ui_commands = Tail(@),
                       !.closed = (Head(emulator.ui_commands) = Finished)]
    /\ last' = Performed("ui_command", NoOpcode, 0)
    /\ UNCHANGED <<vm, overflow_checks, steps>>

\* A step of the loop of the VM thread other than the instruction step: one
\* is possible wherever the thread is in its iteration, until it ends.
SchedulerStep ==
    \/ ReceiveVMCommand
    \/ TimerStep
    \/ SendDisplay
    \/ NoDisplay

NextQuit ==
    \/ KeyReturn
    \/ KeyEscape
    \/ ReceiveUICommand
    \/ InstructionStep
    \/ SchedulerStep

\* The VM thread goes on round its loop, whether or not the instruction clock
\* comes due, and the frontend goes on polling its channel.
SpecQuit ==
    /\ InitQuit
    /\ [][NextQuit]_vars
    /\ WF_vars(SchedulerStep)
    /\ WF_vars(ReceiveUICommand)

----------------------------------------------------------------------------
(* The timers: FX15 and FX18 store them, the 60 Hz clock steps them, and    *)
(* instructions are executed in between.                                    *)

\* The number of timer steps counted after a timer is stored.
MaxTimerSteps == 4

\* The number of instructions executed.
MaxTimerInstructions == 3

\* The values V1 and V2 hold.
StoredValues == {0, 1, 3, 255}

\* F115, F215, F118, F218, and the instructions in between: F007, 00E0,
\* 7101, 6202.
StoreDelayOps == { 61717, 61973 }

StoreSoundOps == { 61720, 61976 }

OtherTimerOps == { 61447, 224, 28929, 25090 }

InitTimers ==
    /\ \E a, b \in StoredValues :
         vm = [Chip8_new EXCEPT !.v[1] = a, !.v[2] = b]
    /\ overflow_checks \in BOOLEAN
    /\ emulator = Chip8Emulator_new
    /\ last = NoOperation
    /\ steps = 0

\* execute_opcode(op) on a machine that has not executed MaxTimerInstructions
\* instructions, all of which advance pc by 2.
TimerInstruction(op) ==
    /\ ~vm.panicked
    /\ vm.pc < PROGRAM_START + 2 * MaxTimerInstructions
    /\ vm' = execute_opcode(vm, op, 0)
    /\ steps' = steps + 1
    /\ UNCHANGED <<overflow_checks, emulator>>

StoreDelayTimer ==
    \E op \in StoreDelayOps :
       /\ TimerInstruction(op)
       /\ last' = [Performed("execute_opcode", op, 0) EXCEPT
                      !.stored[1] = vm.v[opcode_tuple(op)[2]],
                      !.ticks[1] = 0]

StoreSoundTimer ==
    \E op \in StoreSoundOps :
       /\ TimerInstruction(op)
       /\ last' = [Performed("execute_opcode", op, 0) EXCEPT
                      !.stored[2] = vm.v[opcode_tuple(op)[2]],
                      !.ticks[2] = 0]

ExecuteTimerOp ==
    \E op \in OtherTimerOps :
       /\ TimerInstruction(op)
       /\ last' = Performed("execute_opcode", op, 0)

\* A step of the 60 Hz clock.
TimerTick ==
    /\ ~vm.panicked
    /\ last.ticks[1] < MaxTimerSteps
    /\ last.ticks[2] < MaxTimerSteps
    /\ vm' = update_timers(vm)
    /\ last' = [Performed("update_timers", NoOpcode, 0) EXCEPT
                   !.ticks[1] = @ + 1,
                   !.ticks[2] = @ + 1]
    /\ UNCHANGED <<overflow_checks, steps, emulator>>

NextTimers ==
    \/ StoreDelayTimer
    \/ StoreSoundTimer
    \/ ExecuteTimerOp
    \/ TimerTick

SpecTimers == InitTimers /\ [][NextTimers]_vars

----------------------------------------------------------------------------
(* The application running a ROM that sets the sound timer.                 *)

\* The ROMs run: 6002 F018 1204, and 6001 F018 F118.
BeepRoms == { <<96, 2, 240, 24, 18, 4>>, <<96, 1, 240, 24, 241, 24>> }

InitBeep ==
    /\ \E rom \in BeepRoms : vm = load(Chip8_new, rom)
    /\ overflow_checks \in BOOLEAN
    /\ emulator = Chip8Emulator_new
    /\ last = NoOperation
    /\ steps = 0

SpecBeep == InitBeep /\ [][NextEmulator]_vars

----------------------------------------------------------------------------
(* The machine driven from construction by its operations, with every       *)
(* instruction among the opcodes, by the steps of the 60 Hz clock and by    *)
(* the updates of the keypad.                                               *)

\* The keys pressed and released.
WaitKeys == {0, 7}

\* One opcode for each arm of execute_opcode: 00E0, 00EE, 1300, 2300, 3042,
\* 4042, 5010, 6142, 7101, 8010 to 8017, 801E, 9010, A000, B300, C0FF, D015,
\* E09E, E0A1, F007, F00A, F015, F018, F01E, F029, F033, F155, F165, and
\* 0123 for the last.
EveryInstruction ==
    { 224, RET, 4864, 8960, 12354, 16450, 20496, 24898, 28929 }
      \cup (32784..32791)
      \cup { 32798, 36880, 40960, 45824, 49407, 53269, 57502, 57505, 61447,
              61450, 61461, 61464, 61470, 61481, 61491, 61781, 61797, 291 }

ExecuteInstruction ==
    /\ CanStep
    /\ \E op \in EveryInstruction :
         \E rnd \in (IF IsRnd(op) THEN RandBytes ELSE {0}) :
            /\ vm' = execute_opcode(vm, op, rnd)
            /\ last' = Performed("execute_opcode", op, 0)
    /\ steps' = steps + 1
    /\ UNCHANGED <<overflow_checks, emulator>>

\* A step of the 60 Hz clock.
UpdateTimers ==
    /\ CanStep
    /\ vm' = update_timers(vm)
    /\ last' = Performed("update_timers", NoOpcode, 0)
    /\ steps' = steps + 1
    /\ UNCHANGED <<overflow_checks, emulator>>

\* A key of the keypad pressed or released.
UpdateKeyState ==
    /\ CanStep
    /\ \E k \in WaitKeys, pressed \in BOOLEAN :
         /\ vm' = [vm EXCEPT !.keypad = set_key_state(@, k, pressed)]
         /\ last' = Performed("set_key_state", NoOpcode, k)
    /\ steps' = steps + 1
    /\ UNCHANGED <<overflow_checks, emulator>>

NextWait ==
    \/ Next
    \/ ExecuteInstruction
    \/ UpdateTimers
    \/ UpdateKeyState

SpecWait == Init /\ [][NextWait]_vars

----------------------------------------------------------------------------
(* Properties.                                                              *)

\* The operation performed by the step is execute_opcode or emulate_cycle
\* executing an opcode.
Executes == last'.kind \in {"execute_opcode", "emulate_cycle"} /\ last'.op # NoOpcode

\* The fields of the opcode the step executes.
OpA == opcode_tuple(last'.op)[1]
OpX == opcode_tuple(last'.op)[2]
OpY == opcode_tuple(last'.op)[3]
OpN == opcode_tuple(last'.op)[4]
OpNN == last'.op % 256
OpNNN == last'.op % 4096

IsLdVxKey(op) ==
    /\ op # NoOpcode
    /\ opcode_tuple(op)[1] = 15
    /\ opcode_tuple(op)[3] = 0
    /\ opcode_tuple(op)[4] = 10

\* m1 and m2 agree on every field of the machine outside fs.
SameBut(m1, m2, fs) == \A f \in (DOMAIN m2) \ fs : m1[f] = m2[f]

\* C1: once emulate_cycle has executed the FX0A at the program counter, every
\* further emulate_cycle leaves pc, the registers and both timers as they are
\* (and the machine waiting at that FX0A, so this holds of any number of
\* cycles).
C1_CyclesWhileWaiting ==
    [][ ( /\ last.kind = "emulate_cycle"
          /\ IsLdVxKey(last.op)
          /\ last'.kind = "emulate_cycle" )
        => ( /\ vm'.pc = vm.pc
             /\ vm'.v = vm.v
             /\ vm'.delay_timer = vm.delay_timer
             /\ vm'.sound_timer = vm.sound_timer
             /\ is_waiting_for_key(vm')
             /\ IsLdVxKey(last'.op) ) ]_vars

\* Two emulate_cycle calls in a row have executed the FX0A of a loaded ROM,
\* the second on the machine already waiting.
C1_Witness ==
    /\ last.kind = "emulate_cycle"
    /\ last.run >= 2
    /\ IsLdVxKey(last.op)
    /\ last.waiting
    /\ is_waiting_for_key(vm)
    /\ vm.pc \in DOMAIN vm.memory

\* C2: on a waiting machine end_wait_for_key(k) stores k in the target
\* register, clears the wait flag, advances pc by 2 and leaves the other
\* registers, the timers, the memory and the stack as they are.
C2_EndWaitDelivers ==
    [][ (last'.kind = "end_wait_for_key" /\ is_waiting_for_key(vm))
        => ( /\ vm'.v[vm.wait_for_key[2]] = last'.key
             /\ \A r \in Reg \ {vm.wait_for_key[2]} : vm'.v[r] = vm.v[r]
             /\ ~is_waiting_for_key(vm')
             /\ vm'.pc = vm.pc + 2
             /\ vm'.delay_timer = vm.delay_timer
             /\ vm'.sound_timer = vm.sound_timer
             /\ vm'.memory = vm.memory
             /\ vm'.stack = vm.stack
             /\ ~vm'.panicked ) ]_vars

\* After 6142 and F30A, end_wait_for_key(9) has left 9 in V3 and pc past the
\* FX0A.
C2_Witness ==
    /\ last.kind = "end_wait_for_key"
    /\ last.waiting
    /\ last.key = 9
    /\ vm.v[3] = 9
    /\ vm.v[1] = 66
    /\ vm.pc = PROGRAM_START + 4
    /\ ~is_waiting_for_key(vm)

\* C3: end_wait_for_key on a machine that is not waiting changes nothing and
\* does not panic.
C3_EndWaitIgnored ==
    [][ (last'.kind = "end_wait_for_key" /\ ~is_waiting_for_key(vm))
        => vm' = vm ]_vars

\* end_wait_for_key has been called on a machine that was not waiting and
\* holds a call, a register and a delay.
C3_Witness ==
    /\ last.kind = "end_wait_for_key"
    /\ ~last.waiting
    /\ last.key = 7
    /\ vm.v[1] = 66
    /\ vm.delay_timer = 66
    /\ ~vm.panicked

\* C4: an opcode that matches no instruction advances pc by 2 and changes
\* nothing else (emulate_cycle also records the opcode it fetched).
C4_UnknownOpcodeAdvances ==
    [][ (Executes /\ last'.op \in UnknownOps)
        => ( /\ vm'.pc = vm.pc + 2
             /\ SameBut(vm', vm, {"pc", "opcode"}) ) ]_vars

\* C5: 8XY5 and 8XY7 leave VF at 1 when the unwrapped difference (V[X]-V[Y],
\* V[Y]-V[X]) is negative and at 0 when it is not.
C5_BorrowFlag ==
    [][ (Executes /\ OpA = 8 /\ OpN \in {5, 7})
        => LET minuend == IF OpN = 5 THEN vm.v[OpX] ELSE vm.v[OpY]
               subtrahend == IF OpN = 5 THEN vm.v[OpY] ELSE vm.v[OpX]
           IN  vm'.v[FLAG] = IF minuend - subtrahend < 0 THEN 1 ELSE 0 ]_vars

\* C6: 8XY4 leaves VF at 1 when V[X]+V[Y] exceeds 255 and at 0 when it does
\* not, and, for X other than F, V[X] at (V[X]+V[Y]) mod 256.
C6_AddCarry ==
    [][ (Executes /\ OpA = 8 /\ OpN = 4)
        => ( /\ ~vm'.panicked
             /\ vm'.v[FLAG] = IF vm.v[OpX] + vm.v[OpY] > 255 THEN 1 ELSE 0
             /\ OpX # FLAG => vm'.v[OpX] = (vm.v[OpX] + vm.v[OpY]) % 256 ) ]_vars

\* 8014 has added 255 to V0 = 0: the sum is exactly 255 and there is no
\* carry.
C6_Witness ==
    /\ last.kind = "execute_opcode"
    /\ last.op = 32788
    /\ vm.v[1] = 255
    /\ vm.v[0] = 255
    /\ vm.v[FLAG] = 0
    /\ vm.pc = PROGRAM_START + 2

\* C7: 7XNN leaves V[X] at (V[X]+NN) mod 256 and every other register, VF
\* included, as it is.
C7_AddImmediate ==
    [][ (Executes /\ OpA = 7)
        => ( /\ ~vm'.panicked
             /\ vm'.v[OpX] = (vm.v[OpX] + OpNN) % 256
             /\ \A r \in Reg \ {OpX} : vm'.v[r] = vm.v[r] ) ]_vars

\* 70FF has added 255 to V0 = 3: V0 has wrapped to 2 and VF still holds 3.
C7_Witness ==
    /\ last.kind = "execute_opcode"
    /\ last.op = 28927
    /\ vm.v[0] = 2
    /\ vm.v[FLAG] = 3
    /\ vm.pc = PROGRAM_START + 2

\* C8: where I..I+X is within the memory, FX55 leaves memory[I+j] = V[j] for
\* every j in 0..X, and FX65 leaves V[j] = memory[I+j] for every j in 0..X and
\* the registers above X as they are.
C8_BlockTransfer ==
    [][ (Executes /\ OpA = 15 /\ vm.i + OpX < MEMORY_SIZE)
        => ( /\ (OpY = 5 /\ OpN = 5)
                  => \A j \in 0..OpX : MemRead(vm', vm.i + j) = vm.v[j]
             /\ (OpY = 6 /\ OpN = 5)
                  => ( /\ \A j \in 0..OpX : vm'.v[j] = MemRead(vm, vm.i + j)
                       /\ \A r \in Reg : r > OpX => vm'.v[r] = vm.v[r] ) ) ]_vars

\* C9, as stated: FX55 and FX65 leave I at its value plus X+1, for every I.
C9_IndexAdvancesForEveryI ==
    [][ (Executes /\ OpA = 15 /\ OpY \in {5, 6} /\ OpN = 5)
        => vm'.i = vm.i + OpX + 1 ]_vars

\* C9, amended: where I..I+X is within the memory, FX55 and FX65 complete and
\* leave I at its value plus X+1.
C9_IndexAdvances ==
    [][ (Executes /\ OpA = 15 /\ OpY \in {5, 6} /\ OpN = 5
            /\ vm.i + OpX < MEMORY_SIZE)
        => (~vm'.panicked /\ vm'.i = vm.i + OpX + 1) ]_vars

\* FF65 has run from I = 4080, up to the last byte of the memory.
C9_Witness ==
    /\ last.kind = "execute_opcode"
    /\ last.op = 65381
    /\ vm.i = MEMORY_SIZE
    /\ ~vm.panicked
    /\ vm.pc = PROGRAM_START + 2

\* C10: BNNN sets pc to NNN + V[0] and changes nothing else.
C10_JumpPlusV0 ==
    [][ (Executes /\ OpA = 11)
        => vm' = [vm EXCEPT !.pc = OpNNN + vm.v[0]] ]_vars

\* The step executes 2NNN, or 00EE.
IsCall == Executes /\ OpA = 2
IsRet == Executes /\ last'.op = RET

\* C11: 2NNN executed at pc = p with room on the stack stores p in stack[sp],
\* increments sp, sets pc to NNN and changes nothing else; 00EE with a call
\* outstanding decrements sp, sets pc to the address stored there plus 2 and
\* changes nothing else; so each 00EE resumes 2 past the latest call not yet
\* returned from, and sp counts the calls outstanding.
C11_CallsAreLIFO ==
    [][ /\ (IsCall /\ vm.sp < STACK_SIZE)
            => vm' = [vm EXCEPT !.stack[vm.sp] = vm.pc,
                                !.sp = vm.sp + 1,
                                !.pc = OpNNN]
        /\ (IsRet /\ vm.sp > 0)
            => ( /\ vm' = [vm EXCEPT !.sp = vm.sp - 1,
                                     !.pc = vm.stack[vm.sp - 1] + 2]
                 /\ vm'.pc = last.calls[Len(last.calls)] + 2
                 /\ vm'.sp = Len(last'.calls) ) ]_vars

\* Three calls, at 0x200, 0xBBB and 0x300, have been returned from in the
\* reverse order: the third 00EE resumes at 0x202 with the stack empty.
C11_Witness ==
    /\ last.kind = "execute_opcode"
    /\ last.op = RET
    /\ last.run = 3
    /\ vm.sp = 0
    /\ vm.pc = PROGRAM_START + 2
    /\ vm.stack[1] = 3003
    /\ vm.stack[2] = 768
    /\ last.calls = << >>
    /\ ~vm.panicked

\* C12, as stated: sp stays within 0..16, and 2NNN and 00EE only index the
\* stack at a slot in 0..15 (00EE indexes none when sp -= 1 itself panics).
C12_StackAlwaysInRange ==
    [][ (IsCall \/ IsRet)
        => ( /\ vm'.sp \in 0..STACK_SIZE
             /\ IsCall => vm.sp \in 0..(STACK_SIZE - 1)
             /\ (IsRet /\ ~(overflow_checks /\ vm.sp = 0))
                    => (vm.sp - 1) \in 0..(STACK_SIZE - 1) ) ]_vars

\* C12, amended: with fewer than 16 calls outstanding 2NNN completes, and with
\* a call outstanding 00EE completes, each leaving sp within 0..16 and
\* indexing a slot in 0..15; 2NNN with 16 calls outstanding panics leaving sp
\* and the stack as they are; 00EE with none outstanding panics, sp left at 0
\* where overflow is checked and wrapped where it is not.
C12_StackInRangeOrPanic ==
    [][ /\ (IsCall /\ vm.sp < STACK_SIZE)
            => (~vm'.panicked /\ vm'.sp \in 1..STACK_SIZE)
        /\ (IsRet /\ vm.sp > 0)
            => (~vm'.panicked /\ vm'.sp \in 0..(STACK_SIZE - 1))
        /\ (IsCall /\ vm.sp >= STACK_SIZE)
            => (vm'.panicked /\ vm'.sp = vm.sp /\ vm'.stack = vm.stack
                /\ vm.sp = STACK_SIZE)
        /\ (IsRet /\ vm.sp = 0)
            => (vm'.panicked /\ vm'.stack = vm.stack
                /\ vm'.sp = IF overflow_checks THEN 0 ELSE 0 - 1) ]_vars

\* A seventeenth nested call has panicked, sp left at 16.
C12_Witness ==
    /\ last.kind = "execute_opcode"
    /\ opcode_tuple(last.op)[1] = 2
    /\ Len(last.calls) = STACK_SIZE + 1
    /\ vm.sp = STACK_SIZE
    /\ vm.panicked

\* The step is an emulate_cycle that fetches an opcode.
Fetches == last'.kind = "emulate_cycle" /\ ~last'.finished

\* C13, as stated: whenever emulate_cycle fetches an opcode, pc is within
\* [0x200, 4096).
C13_FetchInProgramArea ==
    [][ Fetches => vm.pc \in PROGRAM_START..(MEMORY_SIZE - 1) ]_vars

\* C13, amended: whenever emulate_cycle fetches an opcode, pc is within
\* [0, 4094), so that the two bytes fetched are within the memory.
C13_FetchInMemory ==
    [][ Fetches => ( /\ vm.pc \in 0..(END_OF_PROGRAM - 1)
                     /\ vm.pc + 1 < MEMORY_SIZE ) ]_vars

\* After 1000 has jumped to 0, emulate_cycle has fetched F090, the first two
\* bytes of the font, at pc = 0.
C13_Witness ==
    /\ last.kind = "emulate_cycle"
    /\ ~last.finished
    /\ last.run = 2
    /\ last.op = 61584
    /\ vm.opcode = 61584
    /\ vm.pc = 0

\* C15: emulate_cycle reports that the program is finished exactly when
\* pc >= 4094, and then leaves the machine as it is, so that the next cycle
\* reports the same; otherwise it executes the word
\* memory[pc] * 256 + memory[pc + 1], recorded as the current opcode.
C15_CycleFinishedOrExecutes ==
    [][ last'.kind = "emulate_cycle"
        => ( /\ last'.finished <=> vm.pc >= 4094
             /\ vm.pc >= 4094 => vm' = vm
             /\ (last.kind = "emulate_cycle" /\ last.finished) => last'.finished
             /\ vm.pc < 4094
                  => LET word == MemRead(vm, vm.pc) * 256 + MemRead(vm, vm.pc + 1)
                     IN  /\ last'.op = word
                         /\ \E rnd \in RandBytes :
                              vm' = execute_opcode([vm EXCEPT !.opcode = word],
                                                   word, rnd) ) ]_vars

\* After 6012 and 1FFE, at pc = 4094, a second cycle in a row has reported
\* that the program is finished.
C15_Witness ==
    /\ last.kind = "emulate_cycle"
    /\ last.finished
    /\ last.run = 4
    /\ vm.pc = END_OF_PROGRAM
    /\ vm.v[0] = 18
    /\ vm.opcode = 8190

\* The step executes DXYN, FX33, FX55 or FX65.
IsBlockOp ==
    /\ Executes
    /\ \/ OpA = 13
       \/ OpA = 15 /\ OpY = 3 /\ OpN = 3
       \/ OpA = 15 /\ OpY \in {5, 6} /\ OpN = 5

\* The addresses at which the instruction of the step indexes the memory: the
\* slice I..I+N of DXYN, I..I+2 for FX33, the loop over 0..X of FX55 and FX65.
BlockAddrs ==
    IF OpA = 13 THEN vm.i .. (vm.i + OpN - 1)
    ELSE IF OpY = 3 THEN vm.i .. (vm.i + 2)
    ELSE vm.i .. (vm.i + OpX - 1)

\* C14, as stated: every address at which DXYN, FX33, FX55 and FX65 read or
\* write the memory is within 0..4095.
C14_BlockAlwaysInMemory ==
    [][ IsBlockOp => BlockAddrs \subseteq 0..(MEMORY_SIZE - 1) ]_vars

\* C14, amended: DXYN, FX33, FX55 and FX65 write no byte outside 0..4095 and
\* complete exactly when the addresses of their block are within 0..4095 (the
\* empty slice of DXYN starting no further than 4096); otherwise they panic,
\* leaving pc and I as they are.
C14_BlockInMemoryOrPanic ==
    [][ IsBlockOp
        => ( /\ DOMAIN vm'.memory \subseteq 0..(MEMORY_SIZE - 1)
             /\ vm'.panicked
                  <=> ( \/ ~(BlockAddrs \subseteq 0..(MEMORY_SIZE - 1))
                        \/ OpA = 13 /\ vm.i + OpN > MEMORY_SIZE )
             /\ vm'.panicked => (vm'.pc = vm.pc /\ vm'.i = vm.i)
             /\ ~vm'.panicked => vm'.pc = vm.pc + 2 ) ]_vars

\* F033 has run with I = 4094: the digits at 4094 and 4095 are written and the
\* store at 4096 has panicked.
C14_Witness ==
    /\ last.kind = "execute_opcode"
    /\ last.op = 61491
    /\ vm.i = END_OF_PROGRAM
    /\ vm.panicked
    /\ 4095 \in DOMAIN vm.memory
    /\ vm.pc = PROGRAM_START

\* The opcode of the step is one of 00E0, 6XNN, 7XNN, 8XY0..8XY7, 8XYE, ANNN,
\* CXNN, DXYN, FX07, FX15, FX18, FX1E, FX29, FX33, FX55, FX65.
IsStraightOp ==
    \/ last'.op = 224
    \/ OpA \in {6, 7, 10, 12, 13}
    \/ OpA = 8 /\ OpN \in (0..7) \cup {14}
    \/ OpA = 15 /\ <<OpY, OpN>> \in { <<0, 7>>, <<1, 5>>, <<1, 8>>, <<1, 14>>,
                                       <<2, 9>>, <<3, 3>>, <<5, 5>>, <<6, 5>> }

\* C16: an instruction that is neither a jump, a call, a return, a skip nor
\* FX0A advances pc by exactly 2.
C16_StraightOpsAdvanceByTwo ==
    [][ (Executes /\ IsStraightOp) => vm'.pc = vm.pc + 2 ]_vars

\* The step executes a skip instruction: 3XNN, 4XNN, 5XY0, 9XY0, EX9E, EXA1.
IsSkip ==
    /\ Executes
    /\ \/ OpA \in {3, 4}
       \/ OpA \in {5, 9} /\ OpN = 0
       \/ OpA = 14 /\ <<OpY, OpN>> \in { <<9, 14>>, <<10, 1>> }

\* Key V[X] of the keypad is pressed.
KeyVxPressed == vm.v[OpX] \in KeyIndices /\ vm.keypad.keys[vm.v[OpX]]

\* The condition of the skip instruction the step executes.
SkipCondition ==
    CASE OpA = 3 -> vm.v[OpX] = OpNN
      [] OpA = 4 -> vm.v[OpX] # OpNN
      [] OpA = 5 -> vm.v[OpX] = vm.v[OpY]
      [] OpA = 9 -> vm.v[OpX] # vm.v[OpY]
      [] OpA = 14 /\ OpY = 9 -> KeyVxPressed
      [] OTHER -> ~KeyVxPressed

\* C17: a skip instruction advances pc by 4 when its condition holds and by
\* 2 otherwise, and changes nothing else.
C17_SkipsAdvance ==
    [][ IsSkip
        => vm' = [vm EXCEPT !.pc = vm.pc + (IF SkipCondition THEN 4 ELSE 2)] ]_vars

\* The pixels a sprite drawn at (x, y) covers: column (x + c) mod 64 of row
\* (y + r) mod 32 for every bit c, counted from the most significant, set in
\* the sprite's byte r.
SpriteCells(x, y, sprite) ==
    { <<(y + rc[1]) % 32, (x + rc[2]) % 64>> :
        rc \in { p \in (0..(Len(sprite) - 1)) \X (0..7) :
                   (sprite[p[1] + 1] \div (2 ^ (7 - p[2]))) % 2 = 1 } }

\* The pixels lit once those of cells are toggled.
Toggled(gfx, cells) == (gfx \ cells) \cup (cells \ gfx)

\* C18: a draw with the arguments of the draw before it leaves the pixels as
\* they were before the first of the two.
C18_DrawTwiceRestores ==
    [][ (last'.kind = "draw" /\ last'.repeat)
        => vm'.display.gfx = last.gfx ]_vars

\* The fifteen rows of the font have been drawn twice at (62, 30) over the
\* test drawing, which is on the display again.
C18_Witness ==
    /\ last.kind = "draw"
    /\ last.repeat
    /\ last.draw = <<62, 30, SubSeq(FONT_SET, 1, 15)>>
    /\ last.gfx # vm.display.gfx
    /\ vm.display.gfx = SpriteCells(25, 7, <<231, 102, 60>>)

\* The sprite DXYN draws: the N bytes of memory from I on.
DrawnSprite == [k \in 1..OpN |-> MemRead(vm, vm.i + k - 1)]

\* The machine DXYN is claimed to leave: the sprite toggled onto the display
\* at (V[X], V[Y]), VF at 1 when a lit pixel is put out and at 0 otherwise,
\* pc advanced by 2, I, the memory and all the rest as they are.
DrawnMachine ==
    LET cells == SpriteCells(vm.v[OpX], vm.v[OpY], DrawnSprite)
    IN  [vm EXCEPT !.display = [gfx |-> Toggled(vm.display.gfx, cells),
                                dirty |-> TRUE],
                   !.v[FLAG] = IF vm.display.gfx \cap cells # {} THEN 1 ELSE 0,
                   !.pc = vm.pc + 2]

\* Display::draw returns true exactly when a pixel lit before it is put out.
DrawReportsCollision ==
    last'.kind = "draw"
        => (last'.collision <=> (vm.display.gfx \ vm'.display.gfx) # {})

\* C19, as stated: draw reports a collision exactly when it puts out a lit
\* pixel, and DXYN, for every I, leaves the machine of DrawnMachine.
C19_DrawSetsFlagForEveryI ==
    [][ /\ DrawReportsCollision
        /\ (Executes /\ OpA = 13) => vm' = DrawnMachine ]_vars

\* C19, amended: draw reports a collision exactly when it puts out a lit
\* pixel; DXYN with I + N <= 4096 leaves the machine of DrawnMachine, and
\* with I + N > 4096 it panics and leaves the machine as it is.
C19_DrawSetsFlag ==
    [][ /\ DrawReportsCollision
        /\ (Executes /\ OpA = 13 /\ vm.i + OpN <= MEMORY_SIZE)
             => (vm' = DrawnMachine /\ ~vm'.panicked)
        /\ (Executes /\ OpA = 13 /\ vm.i + OpN > MEMORY_SIZE)
             => vm' = Panic(vm) ]_vars

\* D013 has drawn the test drawing, read from the ROM at 0x200, over itself
\* at (25, 7): the display is dark and VF is 1.
C19_Witness ==
    /\ last.kind = "execute_opcode"
    /\ last.op = 53267
    /\ last.run = 1
    /\ steps = 1
    /\ vm.i = PROGRAM_START
    /\ vm.v[0] = 25
    /\ vm.v[1] = 7
    /\ vm.v[FLAG] = 1
    /\ vm.display.gfx = {}
    /\ vm.pc = PROGRAM_START + 2

\* C20: draw toggles exactly the pixels at column (x + c) mod 64 and row
\* (y + r) mod 32 for the bits c set in the sprite's byte r, the most
\* significant bit being column 0.
C20_DrawWraps ==
    [][ last'.kind = "draw"
        => vm'.display.gfx
             = Toggled(vm.display.gfx,
                       SpriteCells(last'.draw[1], last'.draw[2], last'.draw[3])) ]_vars

\* The test drawing has been drawn at (255, 255) on a dark display: its first
\* row is on row 31, from column 63 round to column 6, the others on rows 0
\* and 1.
C20_Witness ==
    /\ last.kind = "draw"
    /\ last.draw = <<255, 255, <<231, 102, 60>>>>
    /\ last.gfx = {}
    /\ {<<31, 63>>, <<31, 0>>, <<31, 6>>, <<0, 0>>, <<0, 5>>, <<1, 1>>, <<1, 4>>}
           \subseteq vm.display.gfx
    /\ Cardinality(vm.display.gfx) = 14


\* C21: 00E0, a DXYN that draws (also one that changes no pixel) and reset
\* leave the display's dirty flag set; no operation of the interpreter
\* clears the flag; the consumer that rendered the display does.
C21_DirtySetNeverCleared ==
    [][ /\ (Executes /\ last'.op = 224) => vm'.display.dirty
        /\ (Executes /\ OpA = 13 /\ ~vm'.panicked) => vm'.display.dirty
        /\ last'.kind = "reset" => vm'.display.dirty
        /\ (last'.kind # "render" /\ vm.display.dirty) => vm'.display.dirty
        /\ last'.kind = "render" => ~vm'.display.dirty ]_vars

\* The display was rendered and its flag cleared; then D000, which draws no
\* row, has set the flag again on a display that is still dark.
C21_Witness ==
    /\ last.kind = "execute_opcode"
    /\ last.op = 53248
    /\ ~last.dirty
    /\ vm.display.dirty
    /\ vm.display.gfx = {}
    /\ ~vm.panicked

\* The step executes 8XY6, 8XYE.
IsShr == Executes /\ OpA = 8 /\ OpN = 6
IsShl == Executes /\ OpA = 8 /\ OpN = 14

\* The value of the register the option selects, before the step.
ShiftOperand == IF vm.shift_op_use_vy THEN vm.v[OpY] ELSE vm.v[OpX]

\* C22: 8XY6 leaves in V[X] the selected operand (V[X] with the option off,
\* V[Y] with it on) shifted right by one and in VF the operand's least
\* significant bit; 8XYE leaves in V[X] the operand shifted left by one
\* modulo 256; with the option on and X # Y, V[Y] is unchanged.
C22_ShiftsFollowOption ==
    [][ /\ IsShr => /\ vm'.v[OpX] = ShiftOperand \div 2
                    /\ vm'.v[FLAG] = ShiftOperand % 2
        /\ IsShl => vm'.v[OpX] = (ShiftOperand * 2) % 256
        /\ ((IsShr \/ IsShl) /\ vm.shift_op_use_vy /\ OpX # OpY)
             => vm'.v[OpY] = vm.v[OpY] ]_vars

\* C23: after 8XYE VF holds 0x80 when the operand's most significant bit was
\* set and 0 otherwise; after 8XY6 VF holds 0 or 1.
C23_ShiftFlags ==
    [][ /\ IsShl => vm'.v[FLAG] = (IF ShiftOperand >= 128 THEN 128 ELSE 0)
        /\ IsShr => vm'.v[FLAG] \in {0, 1} ]_vars

\* The step executes FX33.
IsBcd == Executes /\ OpA = 15 /\ OpY = 3 /\ OpN = 3

\* The addresses at which the memories of two machines can differ: those
\* written in one of them since construction.
WrittenAddrs(m1, m2) == (DOMAIN m1.memory) \cup (DOMAIN m2.memory)

\* After the step the three bytes at I hold the decimal digits of V[X], and
\* I, the registers and every other byte of the memory are as before.
BcdWritten ==
    /\ \A k \in 0..2 : MemRead(vm', vm.i + k) \in 0..9
    /\ 100 * MemRead(vm', vm.i) + 10 * MemRead(vm', vm.i + 1)
         + MemRead(vm', vm.i + 2) = vm.v[OpX]
    /\ vm'.i = vm.i
    /\ vm'.v = vm.v
    /\ \A a \in WrittenAddrs(vm, vm') \ (vm.i .. (vm.i + 2)) :
         MemRead(vm', a) = MemRead(vm, a)

\* C24, as stated: FX33 leaves the hundreds, tens and ones of V[X] in
\* memory[I], memory[I+1], memory[I+2], whatever I holds, and changes neither
\* I, nor a register, nor another byte of the memory.
C24_BcdForEveryI ==
    [][ IsBcd => BcdWritten ]_vars

\* C24, amended: with I + 2 <= 4095 FX33 leaves the three digits of V[X] at
\* I, I+1, I+2 and changes nothing else but pc; with a larger I it panics at
\* the first of the three addresses beyond 4095, having written the digits
\* below it, and changes neither I, nor a register, nor another byte.
C24_Bcd ==
    [][ IsBcd
        => /\ vm.i + 2 < MEMORY_SIZE
                => (BcdWritten /\ ~vm'.panicked /\ vm'.pc = vm.pc + 2)
           /\ vm.i + 2 >= MEMORY_SIZE
                => /\ vm'.panicked
                   /\ vm'.pc = vm.pc
                   /\ vm'.i = vm.i
                   /\ vm'.v = vm.v
                   /\ \A a \in (WrittenAddrs(vm, vm') \cup {vm.i, vm.i + 1})
                                   \cap (0..(MEMORY_SIZE - 1)) :
                        MemRead(vm', a)
                          = IF a = vm.i THEN vm.v[OpX] \div 100
                            ELSE IF a = vm.i + 1 THEN (vm.v[OpX] \div 10) % 10
                            ELSE MemRead(vm, a) ]_vars

\* F333 has run with V3 = 149 and I = 0x500: the bytes at 0x500 are 1, 4, 9.
C24_Witness ==
    /\ last.kind = "execute_opcode"
    /\ last.op = 62259
    /\ vm.v[3] = 149
    /\ vm.i = 1280
    /\ MemRead(vm, 1280) = 1
    /\ MemRead(vm, 1281) = 4
    /\ MemRead(vm, 1282) = 9
    /\ vm.pc = PROGRAM_START + 2

\* The step executes FX29.
IsLdFont == Executes /\ OpA = 15 /\ OpY = 2 /\ OpN = 9

\* C25: FX29 leaves I = V[X] * 5 for every value of V[X]; for V[X] in 0..15
\* the five bytes from that address lie in the font area 0..79.
C25_FontAddress ==
    [][ IsLdFont
        => /\ vm'.i = vm.v[OpX] * 5
           /\ vm.v[OpX] < NUM_KEYS
                => (vm'.i .. (vm'.i + 4)) \subseteq 0..(FONT_BYTES - 1) ]_vars

\* C26: reset leaves every register, I, every stack slot, sp and both timers
\* at 0, pc at 0x200, the display blank, every key released and the machine
\* not waiting for a key, also when it was waiting; the memory and the shift
\* option are as before.
C26_ResetRestores ==
    [][ last'.kind = "reset"
        => /\ \A r \in Reg : vm'.v[r] = 0
           /\ vm'.i = 0
           /\ \A s \in 0..(STACK_SIZE - 1) : vm'.stack[s] = 0
           /\ vm'.sp = 0
           /\ vm'.delay_timer = 0
           /\ vm'.sound_timer = 0
           /\ vm'.pc = PROGRAM_START
           /\ vm'.display.gfx = {}
           /\ \A k \in KeyIndices : ~vm'.keypad.keys[k]
           /\ ~is_waiting_for_key(vm')
           /\ \A a \in WrittenAddrs(vm, vm') : MemRead(vm', a) = MemRead(vm, a)
           /\ vm'.shift_op_use_vy = vm.shift_op_use_vy ]_vars

\* reset has come to a machine that was waiting for a key, sixteen calls
\* deep, with the shift option on and a ROM loaded: it is idle at 0x200, and
\* the ROM and the option are still there.
C26_Witness ==
    /\ last.kind = "reset"
    /\ last.run = 1
    /\ last.waiting
    /\ ~is_waiting_for_key(vm)
    /\ vm.pc = PROGRAM_START
    /\ vm.sp = 0
    /\ vm.shift_op_use_vy
    /\ MemRead(vm, PROGRAM_START) = 240
    /\ MemRead(vm, 1280) = 1

\* The step is a load of a file that is opened and read to its end.
LoadsRom ==
    /\ last'.kind = "load_file"
    /\ last'.file.opened
    /\ last'.file.read = Len(last'.file.bytes)

\* After the step the bytes of the file lie in the memory from address base
\* on, every other byte of the memory is as before, and so is the rest of
\* the machine.
LoadedAt(base) ==
    LET bytes == last'.file.bytes
    IN  /\ \A k \in 1..Len(bytes) : MemRead(vm', base + k - 1) = bytes[k]
        /\ \A a \in WrittenAddrs(vm, vm') \ (base .. (base + Len(bytes) - 1)) :
             MemRead(vm', a) = MemRead(vm, a)
        /\ SameBut(vm', vm, {"memory"})
        /\ ~last'.error

\* The step is a load of a file that cannot be opened: load returns an error
\* and the machine is as before.
LoadFailsToOpen ==
    (last'.kind = "load_file" /\ ~last'.file.opened) => (last'.error /\ vm' = vm)

\* C27, as stated: load leaves the bytes of the ROM from 0x200 on, whatever
\* was done to the machine before, and every other byte of the memory, the
\* font among them, as it was; load of a file that cannot be opened returns
\* an error and leaves the machine as it was.
C27_LoadAtProgramStart ==
    [][ /\ LoadsRom => LoadedAt(PROGRAM_START)
        /\ LoadFailsToOpen ]_vars

\* C27, amended: load leaves the bytes of the ROM from the address in pc on,
\* and every other byte as it was, when they fit below 4096; when they do not
\* it panics at address 4096, having written the bytes that fit; load of a
\* file that cannot be opened returns an error and leaves the machine as it
\* was.
C27_LoadAtPc ==
    [][ /\ (LoadsRom /\ vm.pc + Len(last'.file.bytes) <= MEMORY_SIZE)
             => LoadedAt(vm.pc)
        /\ (LoadsRom /\ vm.pc + Len(last'.file.bytes) > MEMORY_SIZE)
             => /\ vm'.panicked
                /\ \A a \in vm.pc .. (MEMORY_SIZE - 1) :
                     MemRead(vm', a) = last'.file.bytes[a - vm.pc + 1]
                /\ \A a \in WrittenAddrs(vm, vm') \ (vm.pc .. (MEMORY_SIZE - 1)) :
                     MemRead(vm', a) = MemRead(vm, a)
                /\ SameBut(vm', vm, {"memory", "panicked"})
        /\ LoadFailsToOpen ]_vars

\* The test program of chip8app.rs has been loaded after 1300: its first
\* byte is at 0x300 and the byte at 0x200 is still 0.
C27_Witness ==
    /\ last.kind = "load_file"
    /\ last.file = RomFile(TRUE, <<240, 10, 240, 41, 215, 149, 18, 0>>, 8)
    /\ ~last.error
    /\ vm.pc = 768
    /\ MemRead(vm, 768) = 240
    /\ MemRead(vm, 775) = 0
    /\ MemRead(vm, 773) = 149
    /\ MemRead(vm, PROGRAM_START) = 0

----------------------------------------------------------------------------
(* The scheduler.                                                           *)

\* The step is the VM thread applying a command, of the given type.
AppliesCommand == last'.kind = "command"

AppliesKeyStatus(pressed) ==
    /\ AppliesCommand
    /\ last'.cmd.type = "UpdateKeyStatus"
    /\ last'.cmd.flag = pressed

\* C28: the scheduler calls emulate_cycle only on a machine that is not
\* waiting for a key and is not paused.  The machine waits from the FX0A
\* that emulate_cycle executes until a command (a key pressed, given to
\* end_wait_for_key, or Reset) ends the wait, and it is paused from
\* UpdateRunStatus(false) until UpdateRunStatus(true) is applied, so that no
\* emulate_cycle falls in between in any interleaving of the two threads.
C28_InstructionStepOnlyIfRunnable ==
    [][ /\ last'.kind = "emulate_cycle"
             => /\ ~vm.wait_for_key[1]
                /\ emulator.running
                /\ IsLdVxKey(last'.op) => vm'.wait_for_key[1]
        /\ (vm.wait_for_key[1] /\ ~vm'.wait_for_key[1])
             => \/ AppliesKeyStatus(TRUE)
                   /\ vm' = end_wait_for_key(vm, last'.cmd.index)
                \/ AppliesCommand /\ last'.cmd = ResetVM
        /\ emulator'.running # emulator.running
             => AppliesCommand /\ last'.cmd = UpdateRunStatus(emulator'.running)
        /\ (AppliesCommand /\ last'.cmd.type = "UpdateRunStatus")
             => emulator'.running = last'.cmd.flag ]_vars

\* The 1200 of the ROM F00A 1200 has been executed by the second instruction
\* step, after key 7 ended the wait of the F00A.
C28_Witness ==
    /\ last.kind = "emulate_cycle"
    /\ last.op = 4608
    /\ vm.v[0] = 7
    /\ emulator.last_key = 7
    /\ emulator.running
    /\ steps = 2

C30_DisplaySentWhenDirty ==
    [][ last'.kind = "update_display"
          => /\ vm.display.dirty
             /\ ~vm'.display.dirty
             /\ emulator'.ui_commands =
                  Append(emulator.ui_commands, UpdateDisplay(vm.display))
             /\ emulator.displays > 0 => emulator.drawn ]_vars

\* The display has been sent for the third time: cleared at construction,
\* after the D005 and after the 00E0 of the ROM D005 00E0 1200.
C30_Witness ==
    /\ last.kind = "update_display"
    /\ emulator.displays = 3
    /\ steps = 2
    /\ emulator.ui_commands[2].gfx # {}
    /\ emulator.ui_commands[3].gfx = {}

\* The messages the VM thread has sent that are Finished.
FinishedSent ==
    { n \in 1..Len(emulator.ui_commands) : emulator.ui_commands[n] = Finished }

\* The steps of the VM thread.
VMSteps == {"command", "emulate_cycle", "update_timers", "update_display",
            "no_display"}

\* C31: the VM thread sends Finished at most once, nothing after it, and
\* once it is sent executes no instruction step, no timer step and no
\* command: the machine and the VM thread's state stay as they are.
C31_FinishedOnceAndLast ==
    [][ /\ Cardinality(FinishedSent') <= 1
        /\ FinishedSent' \subseteq {Len(emulator'.ui_commands)}
        /\ FinishedSent' # {} <=> emulator'.terminated
        /\ FinishedSent # {}
             => /\ last'.kind \notin VMSteps
                /\ vm' = vm
                /\ steps' = steps
                /\ emulator'.ui_commands = emulator.ui_commands
                /\ emulator'.running = emulator.running
                /\ emulator'.last_key = emulator.last_key
                /\ emulator'.phase = emulator.phase ]_vars

\* Quit has been applied and Finished sent after the first UpdateDisplay;
\* the frontend has sent a command since, which stays in the channel.
C31_Witness ==
    /\ emulator.terminated
    /\ Len(emulator.ui_commands) = 2
    /\ emulator.ui_commands[1].type = "UpdateDisplay"
    /\ emulator.ui_commands[2] = Finished
    /\ emulator.vm_commands = << ResetVM >>
    /\ last.kind = "key_backspace"

\* Quit is in the channel to the VM thread.
QuitQueued ==
    \E n \in 1..Len(emulator.vm_commands) : emulator.vm_commands[n] = Quit

\* C32: once the frontend has sent Quit, the VM thread leaves its loop and
\* sends Finished, and the frontend receives it and leaves its loop, from
\* every state of the machine and of the two channels.
C32_QuitEndsBothThreads ==
    QuitQueued ~> (emulator.terminated /\ emulator.closed)

\* The steps of the frontend that send a command.
FrontendSteps == {"key_down", "key_up", "key_return", "key_backspace",
                  "key_escape"}

\* C33: the channel to the VM thread is first in, first out: the frontend
\* adds each command it sends behind those queued, the VM thread takes and
\* applies the oldest, and no other step changes the channel, so that the
\* commands are applied in the order sent, none lost or twice; and the
\* thread leaves the draining of an iteration for its instruction and timer
\* steps only with no command left.
C33_CommandsInOrder ==
    [][ /\ last'.kind \in FrontendSteps
             => \/ emulator'.vm_commands = emulator.vm_commands
                   /\ emulator'.sent = emulator.sent
                \/ /\ emulator'.sent = emulator.sent + 1
                   /\ Len(emulator'.vm_commands) = Len(emulator.vm_commands) + 1
                   /\ SubSeq(emulator'.vm_commands, 1, Len(emulator.vm_commands))
                        = emulator.vm_commands
        /\ AppliesCommand
             => /\ emulator.vm_commands # << >>
                /\ last'.cmd = Head(emulator.vm_commands)
                /\ emulator'.vm_commands = Tail(emulator.vm_commands)
                /\ vm' = on_vm_command(vm, emulator, last'.cmd).vm
                /\ emulator'.sent = emulator.sent
        /\ last'.kind \notin FrontendSteps \cup {"command"}
             => /\ emulator'.vm_commands = emulator.vm_commands
                /\ emulator'.sent = emulator.sent
        /\ (last'.kind \in {"emulate_cycle", "update_timers"}
              /\ emulator.phase = "commands")
             => emulator.vm_commands = << >>
        /\ (emulator.phase = "commands" /\ emulator'.phase # "commands")
             => emulator.vm_commands = << >> ]_vars

\* Pressed for key 3 has been applied, the first of three commands sent
\* before the VM thread took any; Reset and UpdateRunStatus(false), sent
\* after it, are still queued in that order.
C33_Witness ==
    /\ last.kind = "command"
    /\ last.cmd = UpdateKeyStatus(3, TRUE)
    /\ emulator.vm_commands = << ResetVM, UpdateRunStatus(FALSE) >>
    /\ vm.keypad.keys[3]
    /\ emulator.running
    /\ steps = 0

----------------------------------------------------------------------------
(* The timers.                                                              *)

\* n - k, or 0 when k exceeds n.
Countdown(n, k) == IF n > k THEN n - k ELSE 0

\* C34: a timer step takes 1 off each timer that is not 0, leaves a timer at
\* 0 there, and changes nothing else; an instruction other than FX15 (FX18)
\* leaves the delay (sound) timer as it is; so that a timer read n when
\* FX15 or FX18 stored it reads n - k after k timer steps, 0 after n, and 0
\* from then on, however many instructions are executed in between.
C34_TimerSteps ==
    [][ /\ last'.kind = "update_timers"
             => /\ vm'.delay_timer = Countdown(vm.delay_timer, 1)
                /\ vm'.sound_timer = Countdown(vm.sound_timer, 1)
                /\ SameBut(vm', vm, {"delay_timer", "sound_timer"})
        /\ (Executes /\ ~vm'.panicked)
             => /\ vm'.delay_timer = IF last'.op \in StoreDelayOps
                                     THEN last'.stored[1] ELSE vm.delay_timer
                /\ vm'.sound_timer = IF last'.op \in StoreSoundOps
                                     THEN last'.stored[2] ELSE vm.sound_timer
        /\ vm'.delay_timer = Countdown(last'.stored[1], last'.ticks[1])
        /\ vm'.sound_timer = Countdown(last'.stored[2], last'.ticks[2]) ]_vars

\* F115 stored 3 in the delay timer; three timer steps later, with F218
\* executed after the first of them, it has just reached 0 and the sound
\* timer, stored 255, reads 253.
C34_Witness ==
    /\ last.kind = "update_timers"
    /\ last.stored = <<3, 255>>
    /\ last.ticks = <<3, 2>>
    /\ vm.delay_timer = 0
    /\ vm.sound_timer = 253

\* The UpdateBeepingStatus the step sends.
BeepsSent ==
    LET old == Len(emulator.ui_commands)
        new == Len(emulator'.ui_commands)
    IN  { n \in (old + 1)..new :
            emulator'.ui_commands[n].type = "UpdateBeepingStatus" }

\* The step takes the sound timer across zero.
CrossesZero == (vm.sound_timer > 0) # (vm'.sound_timer > 0)

\* C35: UpdateBeepingStatus is sent in exactly the steps that take the sound
\* timer across zero, once, with the state of the beep after the step: none
\* is sent by a step that leaves the sound timer at zero or above zero, and
\* one by the timer step that takes it from 1 to 0.
C35_BeepOnCrossing ==
    [][ /\ Len(emulator'.ui_commands) >= Len(emulator.ui_commands)
        /\ CrossesZero
             => /\ Cardinality(BeepsSent) = 1
                /\ \A n \in BeepsSent :
                     emulator'.ui_commands[n] =
                       UpdateBeepingStatus(vm'.sound_timer > 0)
        /\ ~CrossesZero => BeepsSent = {}
        /\ (last'.kind = "update_timers" /\ vm.sound_timer = 1)
             => /\ vm'.sound_timer = 0
                /\ Cardinality(BeepsSent) = 1
        /\ (last'.kind = "update_timers" /\ vm.sound_timer # 1)
             => BeepsSent = {} ]_vars

\* The second timer step after the F018 of 6002 F018 1204 has taken the
\* sound timer from 1 to 0: the beep was notified on by the F018, not at all
\* by the first timer step, and is notified off now.
C35_Witness ==
    /\ last.kind = "update_timers"
    /\ vm.v[0] = 2
    /\ vm.sound_timer = 0
    /\ emulator.ui_commands =
         << UpdateDisplay(Display_new), UpdateBeepingStatus(TRUE),
            UpdateBeepingStatus(FALSE) >>

----------------------------------------------------------------------------
(* The wait for a key, the flags of the arithmetic, the memory.             *)

\* The step executes FX0A.
ExecutesLdVxKey == Executes /\ IsLdVxKey(last'.op)

\* C36: the wait flag is set only by an FX0A executed, which records X as
\* the target and changes nothing else (emulate_cycle keeps the opcode it
\* fetched, as for every instruction), and once set it is cleared only by
\* end_wait_for_key or reset; no other opcode, no timer step, no update of
\* the keypad and no load changes the flag or the target.
C36_WaitStateMachine ==
    [][ /\ (~vm.wait_for_key[1] /\ vm'.wait_for_key[1]) => ExecutesLdVxKey
        /\ ExecutesLdVxKey
             => /\ vm'.wait_for_key = <<TRUE, OpX>>
                /\ SameBut(vm', vm, {"wait_for_key", "opcode"})
                /\ vm'.opcode = IF last'.kind = "emulate_cycle"
                                THEN last'.op ELSE vm.opcode
        /\ (vm.wait_for_key[1] /\ ~vm'.wait_for_key[1])
             => last'.kind \in {"end_wait_for_key", "reset"}
        /\ (last'.kind \notin {"end_wait_for_key", "reset"} /\ ~ExecutesLdVxKey)
             => vm'.wait_for_key = vm.wait_for_key
        /\ last'.kind = "end_wait_for_key"
             => vm'.wait_for_key = <<FALSE, vm.wait_for_key[2]>>
        /\ last'.kind = "reset" => vm'.wait_for_key = <<FALSE, 0>> ]_vars

\* F30A has set the wait, key 7 has been pressed on the keypad, which left
\* the machine waiting, and end_wait_for_key(7) has cleared the wait.
C36_Witness ==
    /\ last.kind = "end_wait_for_key"
    /\ last.key = 7
    /\ last.waiting
    /\ vm.wait_for_key = <<FALSE, 3>>
    /\ vm.v[3] = 7
    /\ vm.keypad.keys[7]
    /\ steps = 3

\* The step executes 8XY4, 8XY5 or 8XY7.
IsFlagArithmetic == Executes /\ OpA = 8 /\ OpN \in {4, 5, 7}

\* C37: 8XY4, 8XY5 and 8XY7 leave VF at 0 or 1, also when X is F: the flag
\* is what VF holds after the instruction, the sum or difference is not
\* kept, and no other register changes.
C37_FlagWriteWins ==
    [][ IsFlagArithmetic
          => /\ vm'.v[FLAG] \in {0, 1}
             /\ OpX = FLAG => \A r \in Reg \ {FLAG} : vm'.v[r] = vm.v[r] ]_vars

\* C38: 8XY6 and 8XYE with X other than F leave in V[X] the value the
\* selected operand register held before the instruction, shifted by one
\* bit, whichever register the operand is, VF included.
C38_ShiftOfAnyOperand ==
    [][ ((IsShr \/ IsShl) /\ OpX # FLAG)
          => vm'.v[OpX] = (IF IsShr THEN ShiftOperand \div 2
                                    ELSE (ShiftOperand * 2) % 256) ]_vars

\* Every byte of the memory is after the step what it was before.
MemoryUnchanged ==
    \A a \in WrittenAddrs(vm, vm') : MemRead(vm', a) = MemRead(vm, a)

\* The step executes FX33 or FX55.
IsMemoryStore == Executes /\ OpA = 15 /\ OpNN \in {51, 85}

\* The step is one of those that write the memory: FX33, FX55 or load.
WritesMemory == IsMemoryStore \/ last'.kind = "load"

\* The font set and the bytes of a ROM at 0x200 are in the memory of m.
FontIntact(m) == \A a \in 0..(FONT_BYTES - 1) : MemRead(m, a) = FONT_SET[a + 1]
ProgramIntact(m, rom) ==
    \A k \in 1..Len(rom) : MemRead(m, PROGRAM_START + k - 1) = rom[k]

\* C39: only FX33, FX55 and load write the memory: every other opcode,
\* end_wait_for_key, reset, a timer step and a keypad update leave all the
\* bytes as they are; FX33 and FX55 write only from I on (three bytes, or
\* the registers up to X), so that the font set and a loaded program are
\* kept unless I points into them.
C39_MemoryWriters ==
    [][ /\ ~WritesMemory => MemoryUnchanged
        /\ IsMemoryStore
             => \A a \in WrittenAddrs(vm, vm')
                         \ (vm.i .. (vm.i + (IF OpNN = 51 THEN 2 ELSE OpX))) :
                  MemRead(vm', a) = MemRead(vm, a) ]_vars

\* A program was loaded and the last of the operations is a timer step: the
\* font set and the program are in the memory.
C39_Witness ==
    /\ last.kind = "update_timers"
    /\ steps = MaxSteps
    /\ FontIntact(vm)
    /\ \E rom \in Roms : ProgramIntact(vm, rom)

====
